---- MODULE Spec2Model ----
(***************************************************************************)
(* Verification model of rs-ali-oss: the retrying request executor         *)
(* (src/client.rs), the multipart transfer manager (src/ops/transfer.rs)   *)
(* and the caching credential provider (src/credential.rs).                *)
(*                                                                         *)
(* The specifications share the variables of the module:                   *)
(*   SpecExec     one OssClient::execute call                              *)
(*   SpecXfer     one TransferManager::upload call                         *)
(*   SpecXferFair SpecXfer with the fairness of the tokio scheduler        *)
(*   SpecCache    threads calling CachingProvider::resolve / invalidate    *)
(*   SpecBackoff  the backoff delays of the retries of one execute call    *)
(*   SpecCrc      crc64::combine, and the checksums of one multipart upload *)
(*   SpecChain    one ProviderChain::resolve call                           *)
(*   SpecSign     one auth::v4::sign_request call                           *)
(*   SpecResign   sign_request called twice on the same request             *)
(*   SpecPresign  building a PresignedUrlRequest and presigning a URL       *)
(*   SpecBuilder  ClientBuilder::build                                      *)
(*   SpecPage     one ListObjectsV2Paginator / ListBucketsPaginator         *)
(* Each one starts the other components in their idle state and never      *)
(* moves them.                                                             *)
(***************************************************************************)
EXTENDS Integers, Sequences, FiniteSets, TLC

\* ------------------------------------------------------------------------
\* Bounds of the model
\* ------------------------------------------------------------------------
MaxRetries == 2
MaxInterceptors == 2
MaxParts == 3
MaxConcurrency == 2
NThreads == 2
MaxTime == 2
MaxTtl == 2
MaxOps == 3
MaxDelay == 40
MaxUrlLen == 50
MaxLen == 3
MaxProviders == 3
MaxHeaders == 2
MaxPages == 3

\* ------------------------------------------------------------------------
\* Program constants
\* ------------------------------------------------------------------------
MIN_PART_SIZE == 102400
DEFAULT_MULTIPART_THRESHOLD == 8388608

\* ------------------------------------------------------------------------
\* u32 values.  A u32 is kept as its two 16-bit halves, so that u32::MAX and
\* the wrap-around of "+ 1" are exact.
\* ------------------------------------------------------------------------
U32(n) == [hi |-> n \div 65536, lo |-> n % 65536]
U32_MAX == [hi |-> 65535, lo |-> 65535]

\* a < b and a <= b on u32 values
u32_lt(a, b) == a.hi < b.hi \/ (a.hi = b.hi /\ a.lo < b.lo)
u32_le(a, b) == a = b \/ u32_lt(a, b)

\* u32::wrapping_add(x, 1): what "x + 1" computes where overflow is unchecked
wrapping_add1(x) ==
    IF x.lo < 65535 THEN [hi |-> x.hi, lo |-> x.lo + 1]
    ELSE IF x.hi < 65535 THEN [hi |-> x.hi + 1, lo |-> 0]
    ELSE [hi |-> 0, lo |-> 0]

VARIABLES
    \* ---- OssClient::execute --------------------------------------------
    retry_config,      \* [max_retries]: the RetryConfig of the client
    config_credentials, \* the Credentials of the client's Config
    request,           \* [body, headers]: the request handed to execute
    interceptors,      \* number of registered interceptors
    request_timeout,   \* TRUE iff TimeoutConfig::request_timeout is Some
    overflow_checks,   \* TRUE iff the build panics on integer overflow
    pc,                \* position of execute / execute_inner
    max_attempts,      \* local of execute_inner
    attempt,           \* loop variable of execute_inner
    last_err,          \* local of execute_inner
    new_req,           \* [body, headers]: the request rebuilt for this attempt
    pending_status,    \* status of the response whose error body is read
    log,               \* one record per dispatched attempt
    hooks,             \* interceptor calls made, in order
    result             \* what execute returned

execVars == <<retry_config, config_credentials, request, interceptors, request_timeout,
              overflow_checks, pc, max_attempts, attempt, last_err, new_req,
              pending_status, log, hooks, result>>

VARIABLES
    \* ---- TransferManager::upload ---------------------------------------
    manager,           \* [part_size, multipart_threshold, concurrency]
    total_size,        \* request.data.len()
    tpc,               \* position of upload / multipart_upload / upload_parts
    task,              \* state of the part task spawned for each part number
    permits,           \* permits left in the semaphore
    join_set,          \* [done: finished tasks not yet joined, in completion
                       \*  order; dropped: the JoinSet has been dropped]
    parts,             \* the CompletedParts collected by upload_parts
    bytes_sent,        \* the shared AtomicU64
    sent,              \* the local "sent" of each part task
    progress,          \* bytes_transferred of every on_progress call, in order
    calls,             \* put_object / initiate / complete / abort calls issued
    parts_err,         \* the error upload_parts returned
    upload_result      \* what upload returned

xferVars == <<manager, total_size, tpc, task, permits, join_set, parts,
              bytes_sent, sent, progress, calls, parts_err, upload_result>>

VARIABLES
    \* ---- CachingProvider ------------------------------------------------
    ttl,               \* CachingProvider::ttl
    now,               \* the clock Instant::now() reads
    cache,             \* the Option<CachedEntry> behind the RwLock
    lock,              \* the thread holding the write lock, 0 when free
    cpc,               \* position of each thread
    ret,               \* what the last resolve of each thread returned
    inner_calls,       \* calls of inner.resolve() made so far
    ops,               \* resolve and invalidate calls made so far
    issued             \* the current (or last) resolve of each thread: what
                       \* it found when it was called and what it has done

cacheVars == <<ttl, now, cache, lock, cpc, ret, inner_calls, ops, issued>>

VARIABLES
    \* ---- the backoff of execute_inner ----------------------------------
    base_delay,        \* RetryConfig::base_delay, in half milliseconds
    max_delay,         \* RetryConfig::max_delay, in half milliseconds
    url_len,           \* url_str.len()
    nth,               \* the loop variable "attempt": the number of the retry
    delay              \* delay_ms of the sleep before that retry

backoffVars == <<base_delay, max_delay, url_len, nth, delay>>

VARIABLES
    \* ---- crc64 ---------------------------------------------------------
    payload,           \* the bytes that are checksummed (request.data)
    folded,            \* a running crc64::combine: the lengths of the parts
                       \* combined so far and the value reached
    enable_crc64,      \* TransferManager::enable_crc64
    crc_part_size,     \* the part size upload_parts cuts the payload with
    part_crcs,         \* the Vec<(u64, usize)> of upload_parts
    completed,         \* the part numbers in the order their tasks completed
    crc64              \* the combined_crc upload_parts returned

crcVars == <<payload, folded, enable_crc64, crc_part_size, part_crcs,
             completed, crc64>>

VARIABLES
    \* ---- ProviderChain -------------------------------------------------
    providers,         \* what resolve() of each provider of the chain gives
    chain_pos,         \* the provider the for loop of resolve has come to
    chain_last_err,    \* last_err
    chain_calls,       \* the providers whose resolve() was called, in order
    chain_result       \* what ProviderChain::resolve returned

chainVars == <<providers, chain_pos, chain_last_err, chain_calls, chain_result>>

VARIABLES
    \* ---- auth::v4::sign_request ----------------------------------------
    sign_req,          \* req: [body, headers], headers in iteration order
    sign_credentials,  \* credentials
    sign_result,       \* what sign_request returned
    sign_calls         \* the sign_request calls made on the request

signVars == <<sign_req, sign_credentials, sign_result, sign_calls>>

VARIABLES
    \* ---- presigned URLs ------------------------------------------------
    presign_builder,   \* PresignedUrlRequestBuilder: [expires, content_type]
    presign_client,    \* the method and the credentials of the presign call
    presign_request,   \* what build() returned
    presign_url        \* the query parameters of the URL that was generated

presignVars == <<presign_builder, presign_client, presign_request, presign_url>>

VARIABLES
    \* ---- ClientBuilder --------------------------------------------------
    client_builder,    \* [access_key_id, max_retries, base_retry_delay,
                       \*  max_retry_delay]: the options set on the builder
    config             \* what build() returned

builderVars == <<client_builder, config>>

VARIABLES
    \* ---- paginators -----------------------------------------------------
    paginator,         \* [continuation_token, buffer, done]
    pg_pc,             \* position of the caller: next_page calls, collect_all
    pg_all,            \* the local "all" of collect_all
    pg_log             \* one record per next_page call and per fetch_next_page

pageVars == <<paginator, pg_pc, pg_all, pg_log>>

\* The components added to the first four.
lateVars == <<crcVars, chainVars, signVars, presignVars, builderVars, pageVars>>

vars == <<execVars, xferVars, cacheVars, backoffVars, lateVars>>

\* ------------------------------------------------------------------------
\* Values
\* ------------------------------------------------------------------------
NoError == [kind |-> "None"]
NoResult == [ok |-> FALSE, err |-> NoError, status |-> 0]

Ok(status) == [ok |-> TRUE, err |-> NoError, status |-> status]
Err(e) == [ok |-> FALSE, err |-> e, status |-> 0]

\* Status codes a server can answer with, and the ways the transport fails.
Statuses == {200, 204, 304, 403, 500, 503}
TransportErrors == {"timeout", "connect", "other"}
\* Error bodies: an XML error document is identified with its <Code>;
\* "raw" is a body that is not an error document, "" an unreadable one.
Bodies == {"InternalError", "raw", ""}

\* A success test that knows "200 OK" only.
is_success_only_200(status) == status = 200

\* reqwest::StatusCode::is_success
is_success(status) == status >= 200 /\ status <= 299

\* A server-error test that takes every status from 400 up for one.
is_server_error_from_400(status) == status >= 400 /\ status <= 599

\* reqwest::StatusCode::is_server_error
is_server_error(status) == status >= 500 /\ status <= 599

\* OssError::from_response_body
from_response_body(status, body) ==
    IF body \in {"raw", ""}
    THEN [kind |-> "ServerError", status |-> status, code |-> "", message |-> body]
    ELSE [kind |-> "ServerError", status |-> status, code |-> body, message |-> "msg"]

\* OssError::Http(e)
Http(e) == [kind |-> "Http", error |-> e]

\* OssError::Auth(reason)
Auth(reason) == [kind |-> "Auth", reason |-> reason]

\* OssError::RetryExhausted { attempts, last_error }
RetryExhausted(n, e) == [kind |-> "RetryExhausted", attempts |-> n, last_error |-> e]

\* OssError::Timeout(deadline)
Timeout == [kind |-> "Timeout"]

\* A classification that takes every transport error for transient.
is_retryable_error_any(e) == TRUE

\* OssClient::is_retryable_error
is_retryable_error(e) == e \in {"timeout", "connect"}

\* A can_retry that takes every body for re-sendable.
can_retry_any_body(req) == TRUE

\* let can_retry = request.body().map(|b| b.as_bytes().is_some()).unwrap_or(true)
can_retry(req) == req.body # "stream"

\* An off-by-one budget test: the last attempt "continues" as well.
attempts_remain_inclusive(a, max) == u32_le(U32(a + 1), max)

\* attempt + 1 < max_attempts
attempts_remain(a, max) == u32_lt(U32(a + 1), max)

\* body_bytes: the body the rebuilt request of every attempt carries
body_bytes(req) == IF req.body = "bytes" THEN "bytes" ELSE "none"

\* ------------------------------------------------------------------------
\* OssClient::execute / execute_inner
\* ------------------------------------------------------------------------
Pending == [kind |-> "pending", status |-> 0, error |-> ""]
Response(status) == [kind |-> "response", status |-> status, error |-> ""]
Failed(e) == [kind |-> "error", status |-> 0, error |-> e]
Dropped == [kind |-> "dropped", status |-> 0, error |-> ""]

\* The AUTH_HEADERS without the security token header.
AUTH_HEADERS_without_token == {"authorization", "x-oss-date", "x-oss-content-sha256"}

\* const AUTH_HEADERS
AUTH_HEADERS ==
    {"authorization", "x-oss-date", "x-oss-content-sha256", "x-oss-security-token"}

\* The header names of the model: the AUTH_HEADERS and one other header.
HeaderNames ==
    {"authorization", "x-oss-date", "x-oss-content-sha256", "x-oss-security-token",
     "content-type"}

\* A header value is identified with where it comes from: the caller's
\* request, or the sign_request call of an attempt.
Absent == [from |-> "absent", attempt |-> 0]
FromCaller == [from |-> "caller", attempt |-> 0]
Signed(a) == [from |-> "sign_request", attempt |-> a]

\* The headers of a request built by an operation (auth = FALSE), or of one
\* that already carries values for the four AUTH_HEADERS (auth = TRUE).
CallerHeaders(auth) ==
    [h \in HeaderNames |->
        IF h = "content-type" \/ auth THEN FromCaller ELSE Absent]

\* Credentials: without a security token, with one, or with a value that
\* cannot be parsed as a header value (Credentials::new takes any string).
CredentialKinds == {"plain", "token", "invalid"}

\* The headers of new_req before signing: every header of the request whose
\* name is not in AUTH_HEADERS.
rebuilt_headers(headers) ==
    [h \in HeaderNames |-> IF h \in AUTH_HEADERS THEN Absent ELSE headers[h]]

\* The headers sign_request inserts in attempt a: x-oss-date,
\* x-oss-content-sha256, x-oss-security-token if the credentials have a
\* token, and authorization.
sign_request(headers, creds, a) ==
    [h \in HeaderNames |->
        IF h \in {"x-oss-date", "x-oss-content-sha256", "authorization"}
        THEN Signed(a)
        ELSE IF h = "x-oss-security-token" /\ creds = "token"
             THEN Signed(a)
             ELSE headers[h]]

\* The reasons an interceptor gives for its veto.
Reasons == {"denied", "throttled"}

NoRequest == [body |-> "none", headers |-> CallerHeaders(FALSE)]

ExecInit ==
    /\ retry_config \in [max_retries : {U32(n) : n \in 0 .. MaxRetries} \cup {U32_MAX}]
    /\ config_credentials \in CredentialKinds
    /\ request \in [body : {"none", "bytes", "stream"},
                    headers : {CallerHeaders(auth) : auth \in BOOLEAN}]
    /\ interceptors \in 0 .. MaxInterceptors
    /\ request_timeout \in BOOLEAN
    /\ overflow_checks \in BOOLEAN
    /\ pc = "start"
    /\ max_attempts = U32(0)
    /\ attempt = 0
    /\ last_err = NoError
    /\ new_req = NoRequest
    /\ pending_status = 0
    /\ log = <<>>
    /\ hooks = <<>>
    /\ result = NoResult

ExecIdle ==
    /\ retry_config = [max_retries |-> U32(0)]
    /\ config_credentials = "plain"
    /\ request = NoRequest
    /\ interceptors = 0
    /\ request_timeout = FALSE
    /\ overflow_checks = FALSE
    /\ pc = "idle"
    /\ max_attempts = U32(0)
    /\ attempt = 0
    /\ last_err = NoError
    /\ new_req = NoRequest
    /\ pending_status = 0
    /\ log = <<>>
    /\ hooks = <<>>
    /\ result = NoResult

\* The configuration of the client and the request never change in a call.
ExecConfigUnchanged ==
    /\ UNCHANGED <<retry_config, config_credentials, request, interceptors,
                   request_timeout, overflow_checks>>
    /\ UNCHANGED <<xferVars, cacheVars, backoffVars, lateVars>>

\* A loop head that starts every attempt at once, without the backoff sleep.
LoopHeadWithoutSleep(a, max) ==
    /\ attempt' = a
    /\ IF u32_lt(U32(a), max)
       THEN /\ pc' = "build"
            /\ result' = result
       ELSE /\ pc' = "done"
            /\ result' = Err(RetryExhausted(max,
                   IF last_err' = NoError THEN Auth("unknown error") ELSE last_err'))

\* The head of "for attempt in 0..max_attempts" for loop variable a: the body
\* runs (after the backoff sleep when a > 0) or the loop is over and the
\* RetryExhausted error after it is returned.
LoopHead(a, max) ==
    /\ attempt' = a
    /\ IF u32_lt(U32(a), max)
       THEN /\ pc' = IF a > 0 THEN "sleep" ELSE "build"
            /\ result' = result
       ELSE /\ pc' = "done"
            /\ result' = Err(RetryExhausted(max,
                   IF last_err' = NoError THEN Auth("unknown error") ELSE last_err'))

\* execute_inner up to the loop: can_retry and max_attempts.
Execute ==
    /\ pc = "start"
    /\ IF can_retry(request) /\ retry_config.max_retries = U32_MAX /\ overflow_checks
       THEN \* "attempt to add with overflow"
            /\ pc' = "panicked"
            /\ UNCHANGED <<max_attempts, attempt, result, last_err>>
       ELSE /\ max_attempts' = IF can_retry(request)
                                THEN wrapping_add1(retry_config.max_retries)
                                ELSE U32(1)
            /\ last_err' = NoError
            /\ LoopHead(0, max_attempts')
    /\ ExecConfigUnchanged
    /\ UNCHANGED <<new_req, pending_status, log, hooks>>

\* tokio::time::sleep(delay) has elapsed.
Sleep ==
    /\ pc = "sleep"
    /\ pc' = "build"
    /\ ExecConfigUnchanged
    /\ UNCHANGED <<max_attempts, attempt, last_err, new_req, pending_status, log,
                   hooks, result>>

\* A signing error that is taken for a transient failure of the attempt.
SignFailureRetried ==
    /\ pc = "build"
    /\ IF config_credentials # "invalid"
       THEN /\ new_req' = [body |-> body_bytes(request),
                           headers |-> sign_request(rebuilt_headers(request.headers),
                                                    config_credentials, attempt)]
            /\ pc' = IF interceptors > 0 THEN "before" ELSE "dispatch"
            /\ UNCHANGED <<attempt, last_err, result>>
       ELSE /\ new_req' = new_req
            /\ last_err' = Auth("failed to set header")
            /\ LoopHead(attempt + 1, max_attempts)
    /\ ExecConfigUnchanged
    /\ UNCHANGED <<max_attempts, pending_status, log, hooks>>

\* The request is rebuilt without the AUTH_HEADERS and with body_bytes, and
\* sign_request signs it; a signing error (a credential value that is no
\* header value) is returned by "?".
Sign ==
    /\ pc = "build"
    /\ IF config_credentials # "invalid"
       THEN /\ new_req' = [body |-> body_bytes(request),
                           headers |-> sign_request(rebuilt_headers(request.headers),
                                                    config_credentials, attempt)]
            /\ pc' = IF interceptors > 0 THEN "before" ELSE "dispatch"
            /\ result' = result
       ELSE /\ new_req' = new_req
            /\ pc' = "done"
            /\ result' = Err(Auth("failed to set header"))
    /\ ExecConfigUnchanged
    /\ UNCHANGED <<max_attempts, attempt, last_err, pending_status, log, hooks>>

\* The hooks in the opposite of the registration order.
HookCallsReversed(name, from, to, a) ==
    [k \in 1 .. (IF to < from THEN 0 ELSE to - from + 1) |->
        [hook |-> name, interceptor |-> to + 1 - k, attempt |-> a, err |-> ""]]

\* "for interceptor in &self.interceptors": the calls of the hook of the
\* interceptors from .. to, for attempt a.
RECURSIVE HookCalls(_, _, _, _)
HookCalls(name, from, to, a) ==
    IF from > to THEN <<>>
    ELSE <<[hook |-> name, interceptor |-> from, attempt |-> a, err |-> ""]>>
         \o HookCalls(name, from + 1, to, a)

\* The before_request call of interceptor i that returns Err(reason).
Veto(i, a, reason) ==
    [hook |-> "before_request", interceptor |-> i, attempt |-> a, err |-> reason]

\* A veto that is logged and otherwise ignored: the request is dispatched.
BeforeRequestVetoIgnored ==
    /\ pc = "before"
    /\ \E veto \in 0 .. interceptors, reason \in Reasons :
          IF veto = 0
          THEN /\ hooks' = hooks \o HookCalls("before_request", 1, interceptors, attempt)
          ELSE /\ hooks' = hooks \o HookCalls("before_request", 1, veto - 1, attempt)
                               \o <<Veto(veto, attempt, reason)>>
    /\ pc' = "dispatch"
    /\ result' = result
    /\ ExecConfigUnchanged
    /\ UNCHANGED <<max_attempts, attempt, last_err, new_req, pending_status, log>>

\* InterceptorChain::before_request: the hooks run up to the first one that
\* returns Err(reason), which execute_inner returns as OssError::Auth(reason).
BeforeRequest ==
    /\ pc = "before"
    /\ \E veto \in 0 .. interceptors, reason \in Reasons :
          IF veto = 0
          THEN /\ hooks' = hooks \o HookCalls("before_request", 1, interceptors, attempt)
               /\ pc' = "dispatch"
               /\ result' = result
          ELSE /\ hooks' = hooks \o HookCalls("before_request", 1, veto - 1, attempt)
                               \o <<Veto(veto, attempt, reason)>>
               /\ pc' = "done"
               /\ result' = Err(Auth(reason))
    /\ ExecConfigUnchanged
    /\ UNCHANGED <<max_attempts, attempt, last_err, new_req, pending_status, log>>

\* self.http_client.execute(new_req) is started.
Dispatch ==
    /\ pc = "dispatch"
    /\ log' = Append(log, [attempt |-> attempt, body |-> new_req.body,
                            headers |-> new_req.headers, outcome |-> Pending])
    /\ pc' = "inflight"
    /\ ExecConfigUnchanged
    /\ UNCHANGED <<max_attempts, attempt, last_err, new_req, pending_status, hooks,
                   result>>

SetOutcome(o) == [log EXCEPT ![Len(log)].outcome = o]

\* An after_request that notifies the first interceptor only.
AfterRequestFirstOnly ==
    IF interceptors > 0
    THEN hooks \o HookCalls("after_request", 1, 1, attempt)
    ELSE hooks

\* InterceptorChain::after_request, when there are interceptors.
AfterRequest ==
    IF interceptors > 0
    THEN hooks \o HookCalls("after_request", 1, interceptors, attempt)
    ELSE hooks

\* Ok(response): the after_request hooks, then success is returned and any
\* other status goes on to read the error body.
ReceiveResponse ==
    /\ pc = "inflight"
    /\ \E status \in Statuses :
          /\ log' = SetOutcome(Response(status))
          /\ hooks' = AfterRequest
          /\ IF (is_server_error(status) /\ attempts_remain(attempt, max_attempts))
                \/ ~is_success(status)
             THEN /\ pc' = "read_body"
                  /\ pending_status' = status
                  /\ result' = result
             ELSE /\ pc' = "done"
                  /\ pending_status' = pending_status
                  /\ result' = Ok(status)
    /\ ExecConfigUnchanged
    /\ UNCHANGED <<max_attempts, attempt, last_err, new_req>>

\* A final server error that is reported as the exhaustion of the retries.
ReadErrorBodyReportsExhausted ==
    /\ pc = "read_body"
    /\ \E body \in Bodies :
          IF is_server_error(pending_status) /\ attempts_remain(attempt, max_attempts)
          THEN /\ last_err' = from_response_body(pending_status, body)
               /\ LoopHead(attempt + 1, max_attempts)
          ELSE /\ last_err' = last_err
               /\ attempt' = attempt
               /\ pc' = "done"
               /\ result' = IF is_server_error(pending_status)
                             THEN Err(RetryExhausted(max_attempts,
                                      from_response_body(pending_status, body)))
                             ELSE Err(from_response_body(pending_status, body))
    /\ pending_status' = 0
    /\ ExecConfigUnchanged
    /\ UNCHANGED <<max_attempts, new_req, log, hooks>>

\* read_error_body has returned: a server error is retried while attempts
\* remain, every other failure status is returned.
ReadErrorBody ==
    /\ pc = "read_body"
    /\ \E body \in Bodies :
          IF is_server_error(pending_status) /\ attempts_remain(attempt, max_attempts)
          THEN /\ last_err' = from_response_body(pending_status, body)
               /\ LoopHead(attempt + 1, max_attempts)
          ELSE /\ last_err' = last_err
               /\ attempt' = attempt
               /\ pc' = "done"
               /\ result' = Err(from_response_body(pending_status, body))
    /\ pending_status' = 0
    /\ ExecConfigUnchanged
    /\ UNCHANGED <<max_attempts, new_req, log, hooks>>

\* Err(e): the after_request hooks, then a timeout or connect error is
\* retried while attempts remain and every other one is returned.
ReceiveError ==
    /\ pc = "inflight"
    /\ \E e \in TransportErrors :
          /\ log' = SetOutcome(Failed(e))
          /\ hooks' = AfterRequest
          /\ IF is_retryable_error(e) /\ attempts_remain(attempt, max_attempts)
             THEN /\ last_err' = Http(e)
                  /\ LoopHead(attempt + 1, max_attempts)
             ELSE /\ last_err' = last_err
                  /\ attempt' = attempt
                  /\ pc' = "done"
                  /\ result' = Err(Http(e))
    /\ ExecConfigUnchanged
    /\ UNCHANGED <<max_attempts, new_req, pending_status>>

\* A deadline that is reported as the exhaustion of the retries.
DeadlineAsRetryExhausted ==
    /\ request_timeout
    /\ pc \in {"sleep", "inflight", "read_body"}
    /\ pc' = "done"
    /\ result' = Err(RetryExhausted(max_attempts, last_err))
    /\ log' = IF pc = "inflight" THEN SetOutcome(Dropped) ELSE log
    /\ ExecConfigUnchanged
    /\ UNCHANGED <<max_attempts, attempt, last_err, new_req, pending_status, hooks>>

\* tokio::time::timeout(deadline, execute_inner) fires while execute_inner
\* is suspended: the future, with any request in flight, is dropped.
Deadline ==
    /\ request_timeout
    /\ pc \in {"sleep", "inflight", "read_body"}
    /\ pc' = "done"
    /\ result' = Err(Timeout)
    /\ log' = IF pc = "inflight" THEN SetOutcome(Dropped) ELSE log
    /\ ExecConfigUnchanged
    /\ UNCHANGED <<max_attempts, attempt, last_err, new_req, pending_status, hooks>>

ExecNext ==
    \/ Execute
    \/ Sleep
    \/ Sign
    \/ BeforeRequest
    \/ Dispatch
    \/ ReceiveResponse
    \/ ReadErrorBody
    \/ ReceiveError
    \/ Deadline

\* ------------------------------------------------------------------------
\* The backoff delay of execute_inner (src/client.rs).  A Duration is counted
\* in half milliseconds, so that as_millis() has something to truncate.
\* ------------------------------------------------------------------------
\* 2u32.saturating_pow(e), for the exponents below 31 the model reaches
RECURSIVE saturating_pow2(_)
saturating_pow2(e) == IF e = 0 THEN 1 ELSE 2 * saturating_pow2(e - 1)

\* Duration::as_millis
as_millis(d) == d \div 2

\* cmp::min(retry_config.base_delay * 2u32.saturating_pow(attempt - 1),
\*          retry_config.max_delay)
capped(base, max, a) ==
    IF base * saturating_pow2(a - 1) < max
    THEN base * saturating_pow2(a - 1)
    ELSE max

\* A jitter of 0 to 99 percent.
jitter_numer_from_0(len, a) == (len * a) % 100

\* let jitter_numer = (url_str.len() as u64 * attempt as u64) % 50 + 50
jitter_numer(len, a) == ((len * a) % 50) + 50

\* let delay_ms = capped.as_millis() as u64 * jitter_numer / 100
delay_ms(base, max, len, a) ==
    (as_millis(capped(base, max, a)) * jitter_numer(len, a)) \div 100

BackoffInit ==
    /\ base_delay \in 0 .. MaxDelay
    /\ max_delay \in 0 .. MaxDelay
    /\ url_len \in (MaxUrlLen - 10) .. MaxUrlLen
    /\ nth = 0
    /\ delay = 0

BackoffIdle ==
    /\ base_delay = 0
    /\ max_delay = 0
    /\ url_len = 0
    /\ nth = -1
    /\ delay = 0

\* The loop comes to its next retry and computes the delay it sleeps for.
Backoff ==
    /\ nth >= 0
    /\ nth < MaxRetries
    /\ nth' = nth + 1
    /\ delay' = delay_ms(base_delay, max_delay, url_len, nth')
    /\ UNCHANGED <<base_delay, max_delay, url_len>>
    /\ UNCHANGED <<execVars, xferVars, cacheVars, lateVars>>

BackoffNext ==
    \/ Backoff

\* ------------------------------------------------------------------------
\* TransferManager (src/ops/transfer.rs)
\* ------------------------------------------------------------------------
\* An error of the named client operation (for upload_part: of that part).
OpError(op, part) == [kind |-> "Op", op |-> op, part |-> part]

NoUpload == [ok |-> FALSE, err |-> NoError, multipart |-> FALSE]
UploadOk(multipart) == [ok |-> TRUE, err |-> NoError, multipart |-> multipart]
UploadErr(e) == [ok |-> FALSE, err |-> e, multipart |-> FALSE]

\* usize::div_ceil
div_ceil(a, b) == (a + b - 1) \div b

\* TransferManagerBuilder::build: part_size and concurrency are clamped up.
build(part_size, multipart_threshold, concurrency) ==
    [part_size |-> IF part_size < MIN_PART_SIZE THEN MIN_PART_SIZE ELSE part_size,
     multipart_threshold |-> multipart_threshold,
     concurrency |-> IF concurrency < 1 THEN 1 ELSE concurrency]

\* let num_parts = data.len().div_ceil(part_size)
num_parts == div_ceil(total_size, manager.part_size)

\* A chunking that leaves out a last chunk shorter than size.
RECURSIVE chunks_exact(_, _)
chunks_exact(len, size) ==
    IF len < size THEN <<>>
    ELSE <<size>> \o chunks_exact(len - size, size)

\* data.chunks(part_size): the lengths of the slices the iterator yields for
\* data of len bytes.  Each call of next() takes min(size, what is left).
RECURSIVE chunks(_, _)
chunks(len, size) ==
    IF len = 0 THEN <<>>
    ELSE LET n == IF size < len THEN size ELSE len
         IN  <<n>> \o chunks(len - n, size)

\* chunk_len of the part numbered i: chunk_range.len()
chunk_len(i) == chunks(total_size, manager.part_size)[i]

\* let offset = i * part_size, for the part numbered (i as u32) + 1
offset(i) == (i - 1) * manager.part_size

\* CompletedPart { part_number, etag }: the etag of part i is written E(i).
CompletedPart(i) == [part_number |-> i, etag |-> 100 + i]

\* Vec::insert at the place sort_by_key gives p among the sorted ps.
RECURSIVE sorted_insert(_, _)
sorted_insert(ps, p) ==
    IF ps = <<>> THEN <<p>>
    ELSE IF p.part_number < ps[Len(ps)].part_number
         THEN Append(sorted_insert(SubSeq(ps, 1, Len(ps) - 1), p), ps[Len(ps)])
         ELSE Append(ps, p)

\* A "sort" that leaves the parts in the order they were joined in.
unsorted(ps) == ps

\* parts.sort_by_key(|p| p.part_number): a stable sort
RECURSIVE sort_by_key(_)
sort_by_key(ps) ==
    IF ps = <<>> THEN <<>>
    ELSE sorted_insert(sort_by_key(SubSeq(ps, 1, Len(ps) - 1)), ps[Len(ps)])

XferInit ==
    /\ \E part_size \in {1024, MIN_PART_SIZE + 1},
          threshold \in {0, MIN_PART_SIZE, DEFAULT_MULTIPART_THRESHOLD},
          concurrency \in 0 .. MaxConcurrency :
          manager = build(part_size, threshold, concurrency)
    /\ total_size \in {k * manager.part_size + r : k \in 0 .. MaxParts, r \in {0, 1}}
    /\ div_ceil(total_size, manager.part_size) <= MaxParts
    /\ tpc = "start"
    /\ task = <<>>
    /\ permits = 0
    /\ join_set = [done |-> <<>>, dropped |-> FALSE]
    /\ parts = <<>>
    /\ bytes_sent = 0
    /\ sent = <<>>
    /\ progress = <<>>
    /\ calls = <<>>
    /\ parts_err = NoError
    /\ upload_result = NoUpload

XferIdle ==
    /\ manager = build(MIN_PART_SIZE, 0, 1)
    /\ total_size = 0
    /\ tpc = "idle"
    /\ task = <<>>
    /\ permits = 0
    /\ join_set = [done |-> <<>>, dropped |-> FALSE]
    /\ parts = <<>>
    /\ bytes_sent = 0
    /\ sent = <<>>
    /\ progress = <<>>
    /\ calls = <<>>
    /\ parts_err = NoError
    /\ upload_result = NoUpload

\* The manager and the data never change in a call.
XferConfigUnchanged ==
    /\ UNCHANGED <<manager, total_size>>
    /\ UNCHANGED <<execVars, cacheVars, backoffVars, lateVars>>

Call(op) == [op |-> op, parts |-> <<>>]
CompleteCall(ps) == [op |-> "complete_multipart_upload", parts |-> ps]

\* An upload that takes data of exactly the threshold for multipart.
UploadBelowThreshold ==
    /\ tpc = "start"
    /\ IF total_size < manager.multipart_threshold
       THEN /\ progress' = Append(progress, 0)
            /\ calls' = Append(calls, Call("put_object"))
            /\ tpc' = "put"
       ELSE /\ progress' = progress
            /\ calls' = Append(calls, Call("initiate_multipart_upload"))
            /\ tpc' = "init"
    /\ XferConfigUnchanged
    /\ UNCHANGED <<task, permits, join_set, parts, bytes_sent,
                   sent, parts_err, upload_result>>

\* upload: the strategy, then simple_upload up to its put_object call or
\* multipart_upload up to its initiate_multipart_upload call.
Upload ==
    /\ tpc = "start"
    /\ IF total_size <= manager.multipart_threshold
       THEN /\ progress' = Append(progress, 0)
            /\ calls' = Append(calls, Call("put_object"))
            /\ tpc' = "put"
       ELSE /\ progress' = progress
            /\ calls' = Append(calls, Call("initiate_multipart_upload"))
            /\ tpc' = "init"
    /\ XferConfigUnchanged
    /\ UNCHANGED <<task, permits, join_set, parts, bytes_sent,
                   sent, parts_err, upload_result>>

\* simple_upload after put_object has returned.
PutObjectDone ==
    /\ tpc = "put"
    /\ \E ok \in BOOLEAN :
          IF ok
          THEN /\ progress' = Append(progress, total_size)
               /\ upload_result' = UploadOk(FALSE)
          ELSE /\ progress' = progress
               /\ upload_result' = UploadErr(OpError("put_object", 0))
    /\ tpc' = "done"
    /\ XferConfigUnchanged
    /\ UNCHANGED <<task, permits, join_set, parts, bytes_sent,
                   sent, calls, parts_err>>

\* multipart_upload after initiate_multipart_upload has returned: on success
\* upload_parts creates the semaphore and spawns one task per chunk.
InitiateDone ==
    /\ tpc = "init"
    /\ \E ok \in BOOLEAN :
          IF ok
          THEN /\ progress' = Append(progress, 0)
               /\ task' = [i \in 1 .. Len(chunks(total_size, manager.part_size))
                               |-> "waiting"]
               /\ sent' = [i \in DOMAIN task' |-> 0]
               /\ permits' = manager.concurrency
               /\ tpc' = "parts"
               /\ upload_result' = upload_result
          ELSE /\ tpc' = "done"
               /\ upload_result' = UploadErr(OpError("initiate_multipart_upload", 0))
               /\ UNCHANGED <<progress, task, sent, permits>>
    /\ XferConfigUnchanged
    /\ UNCHANGED <<join_set, parts, bytes_sent, calls, parts_err>>

\* "let _ = sem.acquire()": the permit is dropped as soon as it is obtained.
AcquirePermitDropped(i) ==
    /\ task[i] = "waiting"
    /\ permits > 0
    /\ task' = [task EXCEPT ![i] = "uploading"]
    /\ XferConfigUnchanged
    /\ UNCHANGED <<tpc, permits, join_set, parts, bytes_sent, sent,
                   progress, calls, parts_err, upload_result>>

\* A part task is given a permit and calls upload_part.
Acquire(i) ==
    /\ task[i] = "waiting"
    /\ permits > 0
    /\ permits' = permits - 1
    /\ task' = [task EXCEPT ![i] = "uploading"]
    /\ XferConfigUnchanged
    /\ UNCHANGED <<tpc, join_set, parts, bytes_sent, sent,
                   progress, calls, parts_err, upload_result>>

\* A task that has ended is queued for join_next and its permit is dropped.
Finished(i, state) ==
    /\ task' = [task EXCEPT ![i] = state]
    /\ permits' = permits + 1
    /\ join_set' = IF join_set.dropped
                   THEN join_set
                   ELSE [join_set EXCEPT !.done = Append(@, i)]

\* upload_part of part i fails: "?" ends the task with the error.
UploadPartFails(i) ==
    /\ task[i] = "uploading"
    /\ Finished(i, "failed")
    /\ XferConfigUnchanged
    /\ UNCHANGED <<tpc, parts, bytes_sent, sent, progress,
                   calls, parts_err, upload_result>>

\* A part task that adds the configured part size, whatever its chunk holds.
UploadPartOkAddsPartSize(i) ==
    /\ task[i] = "uploading"
    /\ bytes_sent' = bytes_sent + manager.part_size
    /\ sent' = [sent EXCEPT ![i] = bytes_sent + manager.part_size]
    /\ task' = [task EXCEPT ![i] = "reporting"]
    /\ XferConfigUnchanged
    /\ UNCHANGED <<tpc, permits, join_set, parts, progress,
                   calls, parts_err, upload_result>>

\* upload_part of part i succeeds: progress.fetch_add(chunk_len).
UploadPartOk(i) ==
    /\ task[i] = "uploading"
    /\ bytes_sent' = bytes_sent + chunk_len(i)
    /\ sent' = [sent EXCEPT ![i] = bytes_sent + chunk_len(i)]
    /\ task' = [task EXCEPT ![i] = "reporting"]
    /\ XferConfigUnchanged
    /\ UNCHANGED <<tpc, permits, join_set, parts, progress,
                   calls, parts_err, upload_result>>

\* listener.on_progress(sent) is called; the task ends with Ok((part_number,
\* etag)), or the listener panics and the task ends with a JoinError.
Report(i) ==
    /\ task[i] = "reporting"
    /\ progress' = Append(progress, sent[i])
    /\ \E panics \in BOOLEAN : Finished(i, IF panics THEN "panicked" ELSE "ok")
    /\ XferConfigUnchanged
    /\ UNCHANGED <<tpc, parts, bytes_sent, sent, calls,
                   parts_err, upload_result>>

\* The JoinSet was dropped: a task that is suspended (waiting for its permit,
\* or in upload_part) is dropped without having ended.
Cancel(i) ==
    /\ join_set.dropped
    /\ task[i] \in {"waiting", "uploading"}
    /\ permits' = IF task[i] = "uploading" THEN permits + 1 ELSE permits
    /\ task' = [task EXCEPT ![i] = "cancelled"]
    /\ XferConfigUnchanged
    /\ UNCHANGED <<tpc, join_set, parts, bytes_sent, sent,
                   progress, calls, parts_err, upload_result>>

\* The error a failed task is joined with.
task_error(i) ==
    IF task[i] = "panicked"
    THEN Auth("part upload task panicked")
    ELSE OpError("upload_part", i)

\* join_next() returns the next finished task.  Ok: its CompletedPart is
\* pushed.  Err: "??" returns it from upload_parts, the JoinSet is dropped,
\* and multipart_upload calls abort_multipart_upload.
JoinNext ==
    /\ tpc = "parts"
    /\ join_set.done # <<>>
    /\ LET i == Head(join_set.done) IN
          IF task[i] = "ok"
          THEN /\ parts' = Append(parts, CompletedPart(i))
               /\ join_set' = [join_set EXCEPT !.done = Tail(@)]
               /\ UNCHANGED <<tpc, calls, parts_err>>
          ELSE /\ parts_err' = task_error(i)
               /\ join_set' = [done |-> <<>>, dropped |-> TRUE]
               /\ calls' = Append(calls, Call("abort_multipart_upload"))
               /\ tpc' = "abort"
               /\ parts' = parts
    /\ XferConfigUnchanged
    /\ UNCHANGED <<task, permits, bytes_sent, sent, progress,
                   upload_result>>

\* join_next() returns None: the parts are sorted and
\* complete_multipart_upload is called with them.
JoinDone ==
    /\ tpc = "parts"
    /\ join_set.done = <<>>
    /\ \A i \in DOMAIN task : task[i] = "ok"
    /\ parts' = sort_by_key(parts)
    /\ calls' = Append(calls, CompleteCall(parts'))
    /\ tpc' = "complete"
    /\ XferConfigUnchanged
    /\ UNCHANGED <<task, permits, join_set, bytes_sent, sent,
                   progress, parts_err, upload_result>>

\* complete_multipart_upload has returned.
CompleteDone ==
    /\ tpc = "complete"
    /\ \E ok \in BOOLEAN :
          upload_result' = IF ok THEN UploadOk(TRUE)
                           ELSE UploadErr(OpError("complete_multipart_upload", 0))
    /\ tpc' = "done"
    /\ XferConfigUnchanged
    /\ UNCHANGED <<task, permits, join_set, parts, bytes_sent,
                   sent, progress, calls, parts_err>>

\* An abort whose own error is propagated by "?".
AbortDonePropagates ==
    /\ tpc = "abort"
    /\ \E ok \in BOOLEAN :
          upload_result' = IF ok THEN UploadErr(parts_err)
                           ELSE UploadErr(OpError("abort_multipart_upload", 0))
    /\ tpc' = "done"
    /\ XferConfigUnchanged
    /\ UNCHANGED <<task, permits, join_set, parts, bytes_sent,
                   sent, progress, calls, parts_err>>

\* abort_multipart_upload has returned; its result is ignored.
AbortDone ==
    /\ tpc = "abort"
    /\ \E ok \in BOOLEAN : upload_result' = UploadErr(parts_err)
    /\ tpc' = "done"
    /\ XferConfigUnchanged
    /\ UNCHANGED <<task, permits, join_set, parts, bytes_sent,
                   sent, progress, calls, parts_err>>

XferNext ==
    \/ Upload
    \/ PutObjectDone
    \/ InitiateDone
    \/ \E i \in DOMAIN task : Acquire(i)
    \/ \E i \in DOMAIN task : UploadPartFails(i)
    \/ \E i \in DOMAIN task : UploadPartOk(i)
    \/ \E i \in DOMAIN task : Report(i)
    \/ \E i \in DOMAIN task : Cancel(i)
    \/ JoinNext
    \/ JoinDone
    \/ CompleteDone
    \/ AbortDone

\* ------------------------------------------------------------------------
\* Properties of upload
\* ------------------------------------------------------------------------
Called(op) == \E k \in 1 .. Len(calls) : calls[k].op = op
TimesCalled(op) == Cardinality({k \in 1 .. Len(calls) : calls[k].op = op})

\* The part tasks that ended in an error, and those that ended at all.
FailedTasks == {i \in DOMAIN task : task[i] \in {"failed", "panicked"}}
ResolvedTasks == {i \in DOMAIN task : task[i] \in {"ok", "failed", "panicked"}}
\* The part tasks that hold a permit.
PermitHolders == {i \in DOMAIN task : task[i] \in {"uploading", "reporting"}}

\* C5: when a part upload has failed, upload has called
\* abort_multipart_upload and not complete_multipart_upload, and it returns
\* the error of a failed part task, whatever the abort call returned.
C5_PartFailureAborts ==
    (tpc = "done" /\ \E i \in DOMAIN task : task[i] = "failed")
    => /\ TimesCalled("abort_multipart_upload") = 1
       /\ ~Called("complete_multipart_upload")
       /\ ~upload_result.ok
       /\ \E i \in FailedTasks : upload_result.err = task_error(i)

\* upload has returned after one part failed and another succeeded.
C5_Witness ==
    /\ tpc = "done"
    /\ \E i, j \in DOMAIN task : task[i] = "failed" /\ task[j] = "ok"
    /\ Called("abort_multipart_upload")
    /\ upload_result.err.kind = "Op"

\* C6: abort_multipart_upload is issued exactly once, and only after every
\* spawned part task has resolved (succeeded or failed): none is pending or
\* in flight when it is sent.
C6_AbortAfterAllResolved ==
    [][(tpc # "abort" /\ tpc' = "abort")
       => /\ TimesCalled("abort_multipart_upload")' = 1
          /\ ResolvedTasks' = DOMAIN task]_vars

\* C7: no part task is cancelled: after one part has failed, every other
\* spawned part task still runs to its own success or failure.
C7_NoCancellation ==
    \A i \in DOMAIN task : task[i] # "cancelled"

\* C8: complete_multipart_upload is called only after every part upload has
\* succeeded, with exactly one CompletedPart per part number 1..=num_parts in
\* ascending part_number order.
C8_CompleteWithAllPartsSorted ==
    \A k \in 1 .. Len(calls) :
        calls[k].op = "complete_multipart_upload"
        => /\ \A i \in DOMAIN task : task[i] = "ok"
           /\ Len(calls[k].parts) = num_parts
           /\ \A n \in 1 .. num_parts :
                 /\ calls[k].parts[n].part_number = n
                 /\ calls[k].parts[n].etag = 100 + n

\* complete_multipart_upload was called for three parts that finished in
\* descending order: part 3 reported first and part 1 last.
C8_Witness ==
    /\ Called("complete_multipart_upload")
    /\ num_parts = 3
    /\ Len(progress) = 4
    /\ progress[2] = sent[3]
    /\ progress[4] = sent[1]

\* C9: at every moment the number of part tasks holding a permit is at most
\* the concurrency limit.
C9_BoundedConcurrency ==
    Cardinality(PermitHolders) <= manager.concurrency

\* Two uploads are in flight under a limit of two while a third part waits.
C9_Witness ==
    /\ manager.concurrency = 2
    /\ Cardinality({i \in DOMAIN task : task[i] = "uploading"}) = 2
    /\ \E i \in DOMAIN task : task[i] = "waiting"

\* C20: upload performs a single put_object, and no call of the multipart
\* flow, exactly when the data length is at most multipart_threshold (the
\* response then has multipart = false); otherwise it performs the multipart
\* flow, starting with initiate_multipart_upload and without put_object (the
\* response then has multipart = true).
C20_StrategyByThreshold ==
    tpc # "start"
    => IF total_size <= manager.multipart_threshold
       THEN /\ calls = <<[op |-> "put_object", parts |-> <<>>]>>
            /\ task = <<>>
            /\ upload_result.ok => ~upload_result.multipart
       ELSE /\ calls # <<>>
            /\ calls[1].op = "initiate_multipart_upload"
            /\ \A k \in 1 .. Len(calls) : calls[k].op # "put_object"
            /\ upload_result.ok => /\ upload_result.multipart
                                   /\ calls[Len(calls)].op = "complete_multipart_upload"

\* Data of exactly multipart_threshold bytes has been uploaded with one
\* put_object.
C20_Witness ==
    /\ total_size = manager.multipart_threshold
    /\ total_size > 0
    /\ tpc = "done"
    /\ upload_result.ok
    /\ ~upload_result.multipart
    /\ Len(calls) = 1

\* The least multiple of the part size that holds the data, by arithmetic.
EndOfPart(i) ==
    IF i * manager.part_size < total_size THEN i * manager.part_size
    ELSE total_size

\* C21: a multipart upload of total_size bytes with part size P spawns
\* exactly ceil(total_size / P) part tasks, numbered 1..num_parts; part i
\* carries the bytes [(i-1)*P, min(i*P, total_size)), so the parts are
\* pairwise disjoint, cover [0, total_size) exactly, and only the last one
\* may be shorter than P.
C21_PartsPartitionData ==
    task # <<>> =>
        LET P == manager.part_size
            n == Len(task)
        IN  /\ DOMAIN task = 1 .. n
            /\ (n - 1) * P < total_size
            /\ total_size <= n * P
            /\ \A i \in 1 .. n :
                   /\ offset(i) = (i - 1) * P
                   /\ offset(i) + chunk_len(i) = EndOfPart(i)
                   /\ chunk_len(i) > 0
            /\ offset(1) = 0
            /\ \A i \in 1 .. n - 1 :
                   /\ chunk_len(i) = P
                   /\ offset(i) + chunk_len(i) = offset(i + 1)
            /\ offset(n) + chunk_len(n) = total_size

\* Three parts were spawned for data of two part sizes and one byte: the
\* last part carries that byte.
C21_Witness ==
    /\ tpc = "parts"
    /\ total_size = 2 * manager.part_size + 1
    /\ Len(task) = 3
    /\ chunk_len(3) = 1
    /\ offset(3) = 2 * manager.part_size

\* The part tasks whose upload_part has returned Ok.
Uploaded == {i \in DOMAIN task : task[i] \in {"reporting", "ok", "panicked"}}

\* The bytes of the parts in S, by arithmetic on their ranges.
RECURSIVE BytesOf(_)
BytesOf(S) ==
    IF S = {} THEN 0
    ELSE LET i == CHOOSE x \in S : TRUE
         IN  (EndOfPart(i) - (i - 1) * manager.part_size) + BytesOf(S \ {i})

\* C23: the shared byte counter of a multipart upload only increases; each
\* part whose upload succeeded has added exactly its own length, once, and
\* failed (or cancelled) parts have added nothing.  So the counter is the sum
\* of the lengths of the parts uploaded so far, never exceeds total_size, and
\* equals total_size once every part has succeeded.
C23_ByteCounter ==
    /\ [](/\ bytes_sent = BytesOf(Uploaded)
          /\ bytes_sent <= total_size
          /\ (task # <<>> /\ \A i \in DOMAIN task : task[i] = "ok")
                => bytes_sent = total_size)
    /\ [][bytes_sent' >= bytes_sent]_vars

\* Of three parts the short last one and the first were uploaded, the second
\* failed: the counter holds the bytes of parts 1 and 3.
C23_Witness ==
    /\ Len(task) = 3
    /\ total_size = 2 * manager.part_size + 1
    /\ task[1] = "ok"
    /\ task[2] = "failed"
    /\ task[3] = "ok"
    /\ bytes_sent = manager.part_size + 1

\* initiate_multipart_upload was called and returned an upload id.
Initiated ==
    /\ Called("initiate_multipart_upload")
    /\ tpc # "init"
    /\ upload_result.err # [kind |-> "Op", op |-> "initiate_multipart_upload", part |-> 0]

\* C33: every multipart upload that was successfully initiated is, by the
\* time upload returns, either completed by a successful
\* complete_multipart_upload call or has had abort_multipart_upload issued
\* for it, also when all parts succeed and the complete call itself fails.
C33_CompletedOrAborted ==
    (tpc = "done" /\ Initiated)
    => \/ upload_result.ok /\ Called("complete_multipart_upload")
       \/ Called("abort_multipart_upload")

\* C34: the bytes_transferred values delivered to the progress listener
\* during one multipart upload form a non-decreasing sequence in the order in
\* which the listener is invoked, under every interleaving of concurrently
\* completing parts.
C34_ProgressNonDecreasing ==
    \A j \in 1 .. Len(progress) - 1 : progress[j] <= progress[j + 1]

\* The scheduling of an upload: every call of the client returns, the tokio
\* runtime runs every task that can run, the semaphore hands its permits out
\* in the order of the requests (no waiting task is passed over for ever),
\* and a dropped JoinSet aborts its tasks.
XferFairness ==
    /\ WF_vars(Upload)
    /\ WF_vars(PutObjectDone)
    /\ WF_vars(InitiateDone)
    /\ \A i \in 1 .. MaxParts :
          /\ SF_vars(i \in DOMAIN task /\ Acquire(i))
          /\ WF_vars(i \in DOMAIN task /\ (UploadPartFails(i) \/ UploadPartOk(i)))
          /\ WF_vars(i \in DOMAIN task /\ Report(i))
          /\ WF_vars(i \in DOMAIN task /\ Cancel(i))
    /\ WF_vars(JoinNext)
    /\ WF_vars(JoinDone)
    /\ WF_vars(CompleteDone)
    /\ WF_vars(AbortDone)

\* Part task i has been given a permit (and has not been cancelled since).
HasHadPermit(i) ==
    i \in DOMAIN task /\ task[i] \in {"uploading", "reporting", "ok", "failed", "panicked"}

\* upload returns.
UploadReturns == (tpc = "start") ~> (tpc = "done")

\* C38: a multipart upload never blocks for ever on its admission gate: for
\* every requested concurrency (0 is clamped to 1) and every number of parts,
\* if each upload_part call terminates then every spawned part task
\* eventually obtains a permit, permits are released on failure as well as on
\* success, and upload returns.
C38_EveryTaskAdmitted ==
    /\ \A i \in 1 .. MaxParts :
          (i \in DOMAIN task /\ task[i] = "waiting") ~> HasHadPermit(i)
    /\ UploadReturns
    /\ [](manager.concurrency >= 1)
    /\ [](permits + Cardinality(PermitHolders) = IF task = <<>> THEN 0
                                                  ELSE manager.concurrency)

\* ------------------------------------------------------------------------
\* CachingProvider (src/credential.rs)
\* ------------------------------------------------------------------------
Threads == 1 .. NThreads

None == [some |-> FALSE, credentials |-> 0, fetched_at |-> 0]
Some(credentials, fetched_at) ==
    [some |-> TRUE, credentials |-> credentials, fetched_at |-> fetched_at]

NoCredentials == [ok |-> FALSE, credentials |-> 0, called |-> FALSE]
\* Ok(credentials) / Err(e) of resolve; called: it has called the inner provider
Resolved(credentials, called) == [ok |-> TRUE, credentials |-> credentials, called |-> called]
ResolveFailed == [ok |-> FALSE, credentials |-> 0, called |-> TRUE]

\* The record of a resolve call.  stale: when it was called the cache held no
\* entry younger than ttl and no refresh was in progress; calls: inner_calls
\* when it was called; made: the calls of inner.resolve() it has made itself;
\* slow: it has gone on to the write lock.
NotIssued == [stale |-> FALSE, calls |-> 0, made |-> 0, slow |-> FALSE]
Issued(stale, n) == [stale |-> stale, calls |-> n, made |-> 0, slow |-> FALSE]

\* A freshness test with the comparison turned around.
is_fresh_inverted(entry, instant) ==
    entry.some /\ instant - entry.fetched_at > ttl

\* if let Some(ref entry) = *guard && entry.fetched_at.elapsed() < self.ttl
is_fresh(entry, instant) ==
    entry.some /\ instant - entry.fetched_at < ttl

CacheInit ==
    /\ ttl \in 0 .. MaxTtl
    /\ now = 0
    /\ cache = None
    /\ lock = 0
    /\ cpc = [t \in Threads |-> "idle"]
    /\ ret = [t \in Threads |-> NoCredentials]
    /\ inner_calls = 0
    /\ ops = 0
    /\ issued = [t \in Threads |-> NotIssued]

CacheIdle ==
    /\ ttl = 0
    /\ now = 0
    /\ cache = None
    /\ lock = 0
    /\ cpc = [t \in Threads |-> "off"]
    /\ ret = [t \in Threads |-> NoCredentials]
    /\ inner_calls = 0
    /\ ops = 0
    /\ issued = [t \in Threads |-> NotIssued]

CacheFrame == UNCHANGED <<ttl, execVars, xferVars, backoffVars, lateVars>>

\* Thread t calls resolve.
ResolveCall(t) ==
    /\ cpc[t] = "idle"
    /\ ops < MaxOps
    /\ ops' = ops + 1
    /\ cpc' = [cpc EXCEPT ![t] = "fast"]
    /\ issued' = [issued EXCEPT ![t] =
           Issued(/\ ~(cache.some /\ now - cache.fetched_at < ttl)
                  /\ \A u \in Threads : cpc[u] # "fetching",
                  inner_calls)]
    /\ CacheFrame
    /\ UNCHANGED <<now, cache, lock, ret, inner_calls>>

\* The fast path: under the read lock, a fresh entry is returned.
FastPath(t) ==
    /\ cpc[t] = "fast"
    /\ lock = 0
    /\ IF is_fresh(cache, now)
       THEN /\ ret' = [ret EXCEPT ![t] = Resolved(cache.credentials, FALSE)]
            /\ cpc' = [cpc EXCEPT ![t] = "idle"]
            /\ issued' = issued
       ELSE /\ ret' = ret
            /\ cpc' = [cpc EXCEPT ![t] = "slow"]
            /\ issued' = [issued EXCEPT ![t].slow = TRUE]
    /\ CacheFrame
    /\ UNCHANGED <<now, cache, lock, inner_calls, ops>>

\* A slow path without the second check: inner.resolve() is called by every
\* thread that gets the write lock.
SlowPathNoRecheck(t) ==
    /\ cpc[t] = "slow"
    /\ lock = 0
    /\ lock' = t
    /\ inner_calls' = inner_calls + 1
    /\ issued' = [issued EXCEPT ![t].made = @ + 1]
    /\ cpc' = [cpc EXCEPT ![t] = "fetching"]
    /\ ret' = ret
    /\ CacheFrame
    /\ UNCHANGED <<now, cache, ops>>

\* The slow path: the write lock is taken and freshness checked again; a
\* fresh entry is returned, otherwise inner.resolve() is called under the lock.
SlowPath(t) ==
    /\ cpc[t] = "slow"
    /\ lock = 0
    /\ IF is_fresh(cache, now)
       THEN /\ ret' = [ret EXCEPT ![t] = Resolved(cache.credentials, FALSE)]
            /\ cpc' = [cpc EXCEPT ![t] = "idle"]
            /\ UNCHANGED <<lock, inner_calls, issued>>
       ELSE /\ lock' = t
            /\ inner_calls' = inner_calls + 1
            /\ issued' = [issued EXCEPT ![t].made = @ + 1]
            /\ cpc' = [cpc EXCEPT ![t] = "fetching"]
            /\ ret' = ret
    /\ CacheFrame
    /\ UNCHANGED <<now, cache, ops>>

\* A refresh that stores the new credentials but returns the ones that were
\* cached before it.
InnerResolvedReturnsOld(t) ==
    /\ cpc[t] = "fetching"
    /\ \E ok \in BOOLEAN :
          IF ok
          THEN /\ cache' = Some(inner_calls, now)
               /\ ret' = [ret EXCEPT ![t] =
                      Resolved(IF cache.some THEN cache.credentials ELSE inner_calls,
                               TRUE)]
          ELSE /\ cache' = cache
               /\ ret' = [ret EXCEPT ![t] = ResolveFailed]
    /\ lock' = 0
    /\ cpc' = [cpc EXCEPT ![t] = "idle"]
    /\ CacheFrame
    /\ UNCHANGED <<now, inner_calls, ops, issued>>

\* A refresh that empties the cache when the inner provider fails.
InnerResolvedClearsOnError(t) ==
    /\ cpc[t] = "fetching"
    /\ \E ok \in BOOLEAN :
          IF ok
          THEN /\ cache' = Some(inner_calls, now)
               /\ ret' = [ret EXCEPT ![t] = Resolved(inner_calls, TRUE)]
          ELSE /\ cache' = None
               /\ ret' = [ret EXCEPT ![t] = ResolveFailed]
    /\ lock' = 0
    /\ cpc' = [cpc EXCEPT ![t] = "idle"]
    /\ CacheFrame
    /\ UNCHANGED <<now, inner_calls, ops, issued>>

\* inner.resolve() has returned: Ok is stored with fetched_at = now and
\* returned, Err is returned by "?"; the write lock is released.
InnerResolved(t) ==
    /\ cpc[t] = "fetching"
    /\ \E ok \in BOOLEAN :
          IF ok
          THEN /\ cache' = Some(inner_calls, now)
               /\ ret' = [ret EXCEPT ![t] = Resolved(inner_calls, TRUE)]
          ELSE /\ cache' = cache
               /\ ret' = [ret EXCEPT ![t] = ResolveFailed]
    /\ lock' = 0
    /\ cpc' = [cpc EXCEPT ![t] = "idle"]
    /\ CacheFrame
    /\ UNCHANGED <<now, inner_calls, ops, issued>>

\* CachingProvider::invalidate, called by thread t.
Invalidate(t) ==
    /\ cpc[t] = "idle"
    /\ ops < MaxOps
    /\ lock = 0
    /\ ops' = ops + 1
    /\ cache' = None
    /\ CacheFrame
    /\ UNCHANGED <<now, lock, cpc, ret, inner_calls, issued>>

\* Time passes.
Tick ==
    /\ now < MaxTime
    /\ now' = now + 1
    /\ CacheFrame
    /\ UNCHANGED <<cache, lock, cpc, ret, inner_calls, ops, issued>>

CacheNext ==
    \/ \E t \in Threads : ResolveCall(t)
    \/ \E t \in Threads : FastPath(t)
    \/ \E t \in Threads : SlowPath(t)
    \/ \E t \in Threads : InnerResolved(t)
    \/ \E t \in Threads : Invalidate(t)
    \/ Tick

\* ------------------------------------------------------------------------
\* Properties of CachingProvider
\* ------------------------------------------------------------------------
\* Less than ttl has elapsed since the fetch that filled the cache, and no
\* invalidate has emptied it since.
WithinTtl == cache.some /\ now - cache.fetched_at < ttl

\* Thread t returns from resolve in this step.
Returns(t) == cpc[t] \in {"fast", "slow", "fetching"} /\ cpc'[t] = "idle"

\* C10: while less than ttl has elapsed since a successful fetch and no
\* invalidate has happened, no call of the inner provider is started or in
\* progress, and every resolve that returns returns the cached credentials.
C10_CachedWithinTtl ==
    [][WithinTtl
       => /\ inner_calls' = inner_calls
          /\ \A t \in Threads : cpc[t] # "fetching"
          /\ \A t \in Threads :
                Returns(t) => ret'[t] = Resolved(cache.credentials, FALSE)]_vars

\* One thread fetched, time passed, and the other thread was served from the
\* cache within the ttl without a second inner call.
C10_Witness ==
    /\ WithinTtl
    /\ now > cache.fetched_at
    /\ inner_calls = 1
    /\ ret[1] = Resolved(1, TRUE)
    /\ ret[2] = Resolved(1, FALSE)

\* Every call of the inner provider made since thread t called resolve was
\* made by that resolve itself: no other thread has refreshed meanwhile.
AloneSinceIssued(t) == inner_calls = issued[t].calls + issued[t].made

\* C11: a resolve called when the ttl of the cached entry has expired, or
\* after invalidate has emptied the cache (and not overtaken by the refresh of
\* another thread, which is C12's case), makes exactly one call of the inner
\* provider before it returns, and when that call succeeds it returns the
\* credentials the call obtained, which are the ones now cached.
C11_StaleResolveCallsOnce ==
    [][\A t \in Threads :
          (Returns(t) /\ issued[t].stale /\ AloneSinceIssued(t))
          => /\ issued[t].made = 1
             /\ ret'[t].called
             /\ ret'[t].ok => /\ ret'[t].credentials = inner_calls
                              /\ cache'.some
                              /\ cache'.credentials = inner_calls]_vars

\* Two resolves and nothing else were called: the second one, called when the
\* ttl of the entry the first one stored had expired, made the second call of
\* the inner provider and returned its credentials.
C11_Witness ==
    /\ ttl = 2
    /\ ops = 2
    /\ issued[1].stale
    /\ issued[1].calls = 1
    /\ issued[1].made = 1
    /\ cpc[1] = "idle"
    /\ ret[1] = Resolved(2, TRUE)

\* C12: the inner provider is called at most once per expiry: while the entry
\* a refresh stored is younger than ttl, the call that obtained it is the last
\* call made; and a resolver that reaches the write lock after that refresh
\* finds the entry fresh, makes no call and returns the stored credentials.
C12_RefreshOncePerExpiry ==
    [][/\ (cache'.some /\ now' - cache'.fetched_at < ttl)
          => inner_calls' = cache'.credentials
       /\ \A t \in Threads :
             (cpc[t] = "slow" /\ cpc'[t] # "slow" /\ WithinTtl)
             => /\ inner_calls' = inner_calls
                /\ cpc'[t] = "idle"
                /\ ret'[t] = Resolved(cache.credentials, FALSE)]_vars

\* Both threads called resolve on the empty cache before any refresh; thread
\* 1 called the inner provider once, and thread 2, which had gone on to the
\* write lock, returned what thread 1 stored.
C12_Witness ==
    /\ issued[1].stale /\ issued[2].stale
    /\ issued[1].calls = 0 /\ issued[2].calls = 0
    /\ issued[2].slow
    /\ issued[2].made = 0
    /\ inner_calls = 1
    /\ ret[1] = Resolved(1, TRUE)
    /\ ret[2] = Resolved(1, FALSE)
    /\ cpc[2] = "idle"

\* The refresh of thread t ends in this step with the error of the inner
\* provider.
RefreshFails(t) == cpc[t] = "fetching" /\ cpc'[t] = "idle" /\ ~ret'[t].ok

\* C31: when the inner provider fails during a refresh, resolve returns that
\* error and stores nothing: the cache content is left unchanged, so it holds
\* no entry younger than ttl; and a resolve that finds the cache so calls the
\* inner provider again.
C31_FailedRefreshStoresNothing ==
    [][/\ \A t \in Threads :
             RefreshFails(t)
             => /\ ret'[t] = [ok |-> FALSE, credentials |-> 0, called |-> TRUE]
                /\ cache' = cache
                /\ ~(cache'.some /\ now' - cache'.fetched_at < ttl)
                /\ lock' = 0
       /\ \A t \in Threads :
             (cpc[t] \in {"fast", "slow"} /\ cpc'[t] # cpc[t] /\ ~WithinTtl)
             => \/ cpc[t] = "fast" /\ cpc'[t] = "slow"
                \/ /\ cpc[t] = "slow" /\ cpc'[t] = "fetching"
                   /\ inner_calls' = inner_calls + 1]_vars

\* The refresh of an expired entry failed and left the entry in the cache;
\* the thread has called resolve again and is calling the inner provider for
\* the third time.
C31_Witness ==
    /\ cache.some
    /\ ~WithinTtl
    /\ ret[1] = ResolveFailed
    /\ issued[1].calls = 2
    /\ issued[1].made = 1
    /\ inner_calls = 3
    /\ cpc[1] = "fetching"

\* ------------------------------------------------------------------------
\* Properties of execute
\* ------------------------------------------------------------------------
Is5xx(o) == o.kind = "response" /\ o.status \in 500 .. 599
Is2xx(o) == o.kind = "response" /\ o.status \in 200 .. 299
IsRetryableFailure(o) ==
    Is5xx(o) \/ (o.kind = "error" /\ o.error \in {"timeout", "connect"})
Resendable == request.body \in {"none", "bytes"}

\* execute has returned, and not because the request deadline fired.
Returned == pc = "done" /\ result.err # Timeout

\* C1: on a re-sendable request, when the first k attempts end in a 5xx
\* response and attempt k+1 receives a 2xx response, execute returns that
\* success response and exactly k+1 requests have been dispatched.
C1_RetryThenSuccess ==
    \A n \in 1 .. Len(log) :
        ( /\ Resendable
          /\ \A j \in 1 .. (n - 1) : Is5xx(log[j].outcome)
          /\ Is2xx(log[n].outcome) )
        => /\ pc = "done"
           /\ result = Ok(log[n].outcome.status)
           /\ Len(log) = n

\* [500, 5xx, 2xx] with max_retries = 2 has been answered.
C1_Witness ==
    /\ retry_config.max_retries = U32(2)
    /\ Len(log) = 3
    /\ log[1].outcome = Response(500)
    /\ Is5xx(log[2].outcome)
    /\ Is2xx(log[3].outcome)
    /\ result.ok

\* All max_retries + 1 attempts of a re-sendable request were dispatched and
\* every one of them ended in a retryable failure.
AllAttemptsFailed ==
    /\ Returned
    /\ Resendable
    /\ Len(log) > 0
    /\ wrapping_add1(retry_config.max_retries) = U32(Len(log))
    /\ \A j \in 1 .. Len(log) : IsRetryableFailure(log[j].outcome)

\* The error made of the outcome o of an attempt matches e.
IsFailureOf(e, o) ==
    IF o.kind = "response"
    THEN e.kind = "ServerError" /\ e.status = o.status
    ELSE e = Http(o.error)

C3_NoRetryOnOtherStatus ==
    \A n \in 1 .. Len(log) :
        ( /\ log[n].outcome.kind = "response"
          /\ ~Is2xx(log[n].outcome)
          /\ ~Is5xx(log[n].outcome) )
        => /\ Len(log) = n
           /\ pc \in {"read_body", "done"}
           /\ Returned => /\ ~result.ok
                           /\ result.err.kind = "ServerError"
                           /\ result.err.status = log[n].outcome.status

\* A single 403 with max_retries = 2 has been returned.
C3_Witness ==
    /\ retry_config.max_retries = U32(2)
    /\ Len(log) = 1
    /\ log[1].outcome = Response(403)
    /\ Returned
    /\ result.err.kind = "ServerError"

\* C4: the number of dispatched attempts never exceeds max_retries + 1, and a
\* request whose body is not fully buffered is dispatched at most once.
C4_AttemptBudget ==
    /\ Len(log) > 0 => u32_le(U32(Len(log) - 1), retry_config.max_retries)
    /\ ~Resendable => Len(log) <= 1

\* The one attempt of a streaming request ended in a retryable failure while
\* the policy allows retries, and execute has returned.
C4_Witness ==
    /\ request.body = "stream"
    /\ u32_le(U32(2), retry_config.max_retries)
    /\ Len(log) = 1
    /\ IsRetryableFailure(log[1].outcome)
    /\ Returned

\* C13: every dispatched request carries authorization, x-oss-date and
\* x-oss-content-sha256 values (and an x-oss-security-token value iff the
\* credentials have a token) produced by the sign_request call of the attempt
\* that dispatches it: no value of the caller's request or of an earlier
\* attempt is sent.
C13_SignedInSameAttempt ==
    \A n \in 1 .. Len(log) :
        /\ log[n].attempt = n - 1
        /\ \A h \in {"authorization", "x-oss-date", "x-oss-content-sha256"} :
              log[n].headers[h] = [from |-> "sign_request", attempt |-> n - 1]
        /\ log[n].headers["x-oss-security-token"] =
              IF config_credentials = "token"
              THEN [from |-> "sign_request", attempt |-> n - 1]
              ELSE [from |-> "absent", attempt |-> 0]

\* A request that came with its own values for the four headers, under
\* credentials without a token, has been dispatched a second time.
C13_Witness ==
    /\ \A h \in {"authorization", "x-oss-date", "x-oss-content-sha256",
                  "x-oss-security-token"} : request.headers[h].from = "caller"
    /\ config_credentials = "plain"
    /\ Len(log) = 2
    /\ log[2].headers["authorization"].attempt = 1
    /\ log[2].headers["content-type"].from = "caller"

\* The retry budget allows another attempt after the n-th dispatched one.
BudgetRemainsAfter(n) ==
    /\ Resendable
    /\ retry_config.max_retries # U32_MAX
    /\ u32_lt(U32(n - 1), retry_config.max_retries)

\* C14: a transport error that is a timeout or a connect failure is retried
\* while attempts remain (the loop goes on to the next attempt, and execute
\* does not return that error); any other transport error is terminal:
\* execute returns OssError::Http for it at once and dispatches nothing more,
\* whatever budget remains.
C14_TransportErrorClassification ==
    \A n \in 1 .. Len(log) :
        LET o == log[n].outcome IN
        /\ (o.kind = "error" /\ o.error \notin {"timeout", "connect"})
           => /\ Len(log) = n
              /\ pc = "done"
              /\ result = [ok |-> FALSE, status |-> 0,
                            err |-> [kind |-> "Http", error |-> o.error]]
        /\ (o.kind = "error" /\ o.error \in {"timeout", "connect"}
               /\ BudgetRemainsAfter(n))
           => /\ attempt >= n
              /\ (pc = "done" /\ Len(log) = n)
                 => result.err.kind \in {"Timeout", "Auth"}

\* With max_retries = 2, a connect failure was retried and the error of the
\* second attempt, which is neither a timeout nor a connect failure, returned.
C14_Witness ==
    /\ retry_config.max_retries = U32(2)
    /\ Len(log) = 2
    /\ log[1].outcome = Failed("connect")
    /\ log[2].outcome = Failed("other")
    /\ pc = "done"
    /\ result.err.kind = "Http"

\* C15: when a before_request hook returns Err(reason) on any attempt,
\* execute returns OssError::Auth(reason) at once: no hook is called after it,
\* the request of that attempt is not dispatched and no later attempt is made.
C15_VetoIsTerminal ==
    \A k \in 1 .. Len(hooks) :
        hooks[k].err # ""
        => /\ hooks[k].hook = "before_request"
           /\ k = Len(hooks)
           /\ pc = "done"
           /\ result = [ok |-> FALSE, status |-> 0,
                         err |-> [kind |-> "Auth", reason |-> hooks[k].err]]
           /\ Len(log) = hooks[k].attempt

\* With max_retries = 2, the first attempt was dispatched and failed, and an
\* interceptor vetoed the second attempt.
C15_Witness ==
    /\ retry_config.max_retries = U32(2)
    /\ hooks # <<>>
    /\ hooks[Len(hooks)].err = "throttled"
    /\ hooks[Len(hooks)].attempt = 1
    /\ Len(log) = 1
    /\ pc = "done"

\* The hook call g is the one that comes after the hook call h.
FollowsHook(h, g) ==
    /\ h.err = ""
    /\ IF h.hook = "before_request"
       THEN IF h.interceptor < interceptors
            THEN /\ g.hook = "before_request"
                 /\ g.interceptor = h.interceptor + 1
                 /\ g.attempt = h.attempt
            ELSE /\ g.hook = "after_request"
                 /\ g.interceptor = 1
                 /\ g.attempt = h.attempt
       ELSE IF h.interceptor < interceptors
            THEN /\ g.hook = "after_request"
                 /\ g.interceptor = h.interceptor + 1
                 /\ g.attempt = h.attempt
                 /\ g.err = ""
            ELSE /\ g.hook = "before_request"
                 /\ g.interceptor = 1
                 /\ g.attempt = h.attempt + 1

\* The hook of the last interceptor has been called, without error, for
\* attempt a.
ChainDone(name, a) ==
    \E k \in 1 .. Len(hooks) :
        hooks[k] = [hook |-> name, interceptor |-> interceptors, attempt |-> a,
                    err |-> ""]

\* C16: on each attempt the before_request hooks run in registration order,
\* up to the first that returns an error, and all of them have run when the
\* request is dispatched; the after_request hooks run in registration order
\* once the attempt has a response or a transport error, and have run when
\* its outcome is acted on.
C16_HookOrder ==
    /\ interceptors = 0 => hooks = <<>>
    /\ hooks # <<>> => /\ hooks[1].hook = "before_request"
                       /\ hooks[1].interceptor = 1
                       /\ hooks[1].attempt = 0
    /\ \A k \in 1 .. (Len(hooks) - 1) : FollowsHook(hooks[k], hooks[k + 1])
    /\ interceptors > 0 =>
          \A n \in 1 .. Len(log) :
              /\ ChainDone("before_request", n - 1)
              /\ log[n].outcome.kind \in {"response", "error"}
                    <=> ChainDone("after_request", n - 1)

\* Two interceptors: both hooks of both ran for the first attempt, and the
\* first interceptor vetoed the second attempt, so the second was not called.
C16_Witness ==
    /\ interceptors = 2
    /\ Len(hooks) = 5
    /\ hooks[2].hook = "before_request" /\ hooks[2].interceptor = 2
    /\ hooks[4].hook = "after_request" /\ hooks[4].interceptor = 2
    /\ hooks[5].err # "" /\ hooks[5].interceptor = 1 /\ hooks[5].attempt = 1
    /\ pc = "done"

\* execute has returned while the attempt loop was suspended in the backoff
\* sleep before attempt number "attempt": that attempt was neither vetoed nor
\* dispatched, and its signing cannot have failed.
LeftInSleep ==
    /\ pc = "done"
    /\ log # <<>>
    /\ attempt = Len(log)
    /\ config_credentials # "invalid"
    /\ \A k \in 1 .. Len(hooks) : hooks[k].attempt < attempt

\* C17: when the request deadline fires before the attempt loop has returned
\* (it fires while the loop is suspended: in a backoff sleep, in a request in
\* flight, or in reading an error body), execute returns OssError::Timeout,
\* not RetryExhausted and not the last error; the request in flight is
\* dropped and nothing is dispatched afterwards.  Without a request deadline
\* there is no Timeout, and a success received before the deadline is what
\* execute returns.
C17_DeadlineIsTimeout ==
    [][/\ (result'.err.kind = "Timeout" /\ result.err.kind # "Timeout")
          => /\ request_timeout
             /\ pc \in {"sleep", "inflight", "read_body"}
             /\ pc' = "done"
             /\ Len(log') = Len(log)
             /\ hooks' = hooks
       /\ \A n \in 1 .. Len(log') :
             log'[n].outcome.kind = "dropped"
             => /\ n = Len(log')
                /\ pc' = "done"
                /\ result'.err = [kind |-> "Timeout"]
       /\ LeftInSleep' => result'.err = [kind |-> "Timeout"]
       /\ result'.err.kind = "Timeout"
          => /\ request_timeout
             /\ pc' = "done"
             /\ \A n \in 1 .. Len(log') : log'[n].outcome.kind # "pending"
       /\ (pc' = "done" /\ log' # <<>> /\ Is2xx(log'[Len(log')].outcome))
          => result' = [ok |-> TRUE, err |-> [kind |-> "None"],
                        status |-> log'[Len(log')].outcome.status]
       /\ pc = "done" => (result' = result /\ log' = log)]_vars

\* The deadline fired in the backoff sleep after a first 503, with retries
\* left.
C17_Witness ==
    /\ request_timeout
    /\ retry_config.max_retries = U32(2)
    /\ Len(log) = 1
    /\ log[1].outcome = Response(503)
    /\ attempt = 1
    /\ pc = "done"
    /\ result.err.kind = "Timeout"

\* C18: when sign_request fails, execute returns that error at once: nothing
\* is dispatched, no hook is called, no further attempt is made whatever
\* max_retries is, and the error is not wrapped in RetryExhausted.
C18_SigningFailureIsTerminal ==
    [][(pc = "build" /\ config_credentials = "invalid")
       => /\ pc' = "done"
          /\ result' = [ok |-> FALSE, status |-> 0,
                        err |-> [kind |-> "Auth", reason |-> "failed to set header"]]
          /\ attempt' = attempt
          /\ log' = <<>>
          /\ hooks' = <<>>]_vars

\* Signing failed under a retry budget of two and execute has returned the
\* signing error.
C18_Witness ==
    /\ config_credentials = "invalid"
    /\ retry_config.max_retries = U32(2)
    /\ Resendable
    /\ pc = "done"
    /\ result.err.kind = "Auth"
    /\ log = <<>>

\* The outcome of a dispatched attempt has been received.
Received(entry) == entry.outcome.kind \in {"response", "error"}

\* C35: the request dispatched on every attempt has the same
\* non-authentication headers and body as the request passed to execute (the
\* method and the URL are cloned into it); in particular a streamed body is
\* sent on the single attempt that is made for it.
C35_SameRequestDispatched ==
    \A i \in DOMAIN log :
       /\ log[i].body = request.body
       /\ \A h \in HeaderNames :
             h \notin {"authorization", "x-oss-date", "x-oss-content-sha256",
                       "x-oss-security-token"}
             => log[i].headers[h] = request.headers[h]

\* C36: for every max_retries value of the unsigned 32-bit range execute
\* makes at least one attempt: the attempt budget max_retries + 1 (computed in
\* u32) is never 0, so RetryExhausted is never reported with 0 attempts and
\* the placeholder "unknown error" as last_error.
C36_AtLeastOneAttempt ==
    /\ pc # "panicked"
    /\ pc \notin {"start", "idle"} => max_attempts # U32(0)
    /\ ~(/\ result.err.kind = "RetryExhausted"
         /\ result.err.attempts = U32(0)
         /\ result.err.last_error = [kind |-> "Auth", reason |-> "unknown error"])

\* The number of after_request calls made to interceptor i for attempt a.
AfterCalls(i, a) ==
    Cardinality({k \in DOMAIN hooks : /\ hooks[k].hook = "after_request"
                                      /\ hooks[k].interceptor = i
                                      /\ hooks[k].attempt = a})

\* Attempt a was dispatched.
Dispatched(a) == a + 1 \in DOMAIN log

\* C37 as stated: over any execute run each interceptor's after_request is
\* called exactly once for every dispatched attempt and never for an attempt
\* that was not dispatched.
C37_Original ==
    pc = "done"
    => \A i \in 1 .. interceptors, a \in 0 .. Len(log) :
          AfterCalls(i, a) = IF Dispatched(a) THEN 1 ELSE 0

\* C37, amended: each interceptor's after_request is called exactly once for
\* every dispatched attempt whose outcome (a response or a transport error)
\* was received, and never for any other attempt: not for an attempt that was
\* not dispatched (a vetoed attempt produces no after_request for any
\* interceptor), and not for an attempt that the deadline of the call cut off
\* while it was in flight.
C37_AfterRequestOncePerOutcome ==
    /\ \A i \in 1 .. interceptors, a \in 0 .. Len(log) :
          AfterCalls(i, a) =
              IF Dispatched(a) /\ Received(log[a + 1]) THEN 1 ELSE 0
    /\ \A k \in DOMAIN hooks :
          hooks[k].hook = "after_request"
          => /\ hooks[k].interceptor \in 1 .. interceptors
             /\ Dispatched(hooks[k].attempt)

\* Two interceptors: the first attempt was answered with 503 and both were
\* notified of it, the second attempt was in flight when the deadline fired
\* and neither was notified of it.
C37_Witness ==
    /\ interceptors = 2
    /\ pc = "done"
    /\ result.err.kind = "Timeout"
    /\ Len(log) = 2
    /\ log[1].outcome = Response(503)
    /\ log[2].outcome = Dropped
    /\ AfterCalls(1, 0) = 1 /\ AfterCalls(2, 0) = 1
    /\ AfterCalls(1, 1) = 0 /\ AfterCalls(2, 1) = 0

\* The number of attempts execute may make: max_retries + 1 (in u32) for a
\* request that can be sent again, one for a streamed body.
Permitted ==
    IF Resendable THEN wrapping_add1(retry_config.max_retries) ELSE U32(1)

C29_SequentialAttempts ==
    /\ [](/\ \A i \in DOMAIN log :
              /\ log[i].attempt = i - 1
              /\ log[i].outcome = Pending => (i = Len(log) /\ pc = "inflight")
              /\ i < Len(log) => Received(log[i])
          /\ pc = "sleep" => attempt > 0
          /\ (attempt > 0 /\ pc \in {"sleep", "build", "before", "dispatch"})
                => (Len(log) = attempt /\ Received(log[attempt])))
    /\ [][(pc' = "build" /\ attempt' > 0)
            => (pc = "sleep" /\ attempt' = attempt)]_vars

\* The second attempt is in flight after the first one was answered with 503
\* and the sleep has elapsed.
C29_Witness ==
    /\ pc = "inflight"
    /\ attempt = 1
    /\ Len(log) = 2
    /\ log[1].outcome = Response(503)
    /\ log[2].outcome = Pending

\* ------------------------------------------------------------------------
\* Properties of the backoff
\* ------------------------------------------------------------------------
\* min(base_delay * 2^(nth-1), max_delay) in whole milliseconds
CappedMs ==
    (IF base_delay * saturating_pow2(nth - 1) < max_delay
     THEN base_delay * saturating_pow2(nth - 1)
     ELSE max_delay) \div 2

xor(a, b) == (a \ b) \cup (b \ a)

\* a >> k
shr(a, k) == {i - k : i \in {j \in a : j >= k}}

\* byte as u64
u64_from(byte) == {i \in 0 .. 7 : (byte \div (2 ^ i)) % 2 = 1}

\* const POLY: u64 = 0xC96C5795D7870F42
POLY == {1, 6, 8, 9, 10, 11, 16, 17, 18, 23, 24, 25, 26, 28, 30, 31, 32, 34,
         36, 39, 40, 41, 42, 44, 46, 50, 51, 53, 54, 56, 59, 62, 63}

\* make_table: the 8 steps that turn the index into its table entry, j of
\* them done.
RECURSIVE make_table(_, _)
make_table(crc, j) ==
    IF j = 8 THEN crc
    ELSE make_table(IF 0 \in crc THEN xor(shr(crc, 1), POLY) ELSE shr(crc, 1),
                    j + 1)

\* TABLE[index]
TABLE(index) == make_table(index, 0)

\* update: one table step per byte of data
RECURSIVE update(_, _)
update(crc, data) ==
    IF data = <<>> THEN crc
    ELSE LET index == xor(crc, u64_from(Head(data))) \cap (0 .. 7)
         IN  update(xor(TABLE(index), shr(crc, 8)), Tail(data))

\* checksum
checksum(data) == update({}, data)

\* gf2_matrix_times: the sum (xor) of the rows mat[idx] for the one bits idx
\* of vec; bit k of it is one iff an odd number of those rows has bit k.
\* A matrix [u64; 64] is a sequence: mat[idx] is written mat[idx + 1].
gf2_matrix_times(mat, vec) ==
    {k \in 0 .. 63 : Cardinality({idx \in vec : k \in mat[idx + 1]}) % 2 = 1}

\* gf2_matrix_square: square[n] = gf2_matrix_times(mat, mat[n]) for the rows
\* n = lo .. hi
RECURSIVE square_rows(_, _, _)
square_rows(mat, lo, hi) ==
    IF lo = hi THEN <<gf2_matrix_times(mat, mat[lo + 1])>>
    ELSE LET mid == (lo + hi) \div 2
         IN  square_rows(mat, lo, mid) \o square_rows(mat, mid + 1, hi)

gf2_matrix_square(mat) == square_rows(mat, 0, 63)

\* The first matrix of combine: mat1[0] = POLY, mat1[n] = 1 << (n - 1), for
\* the rows n = lo .. hi
RECURSIVE first_rows(_, _)
first_rows(lo, hi) ==
    IF lo = hi THEN <<IF lo = 0 THEN POLY ELSE {lo - 1}>>
    ELSE LET mid == (lo + hi) \div 2
         IN  first_rows(lo, mid) \o first_rows(mid + 1, hi)

\* The loop of combine.  Each half of its body squares the matrix of the
\* half before (mat1 and mat2 take turns), applies the square to crc if the
\* lowest bit of len is one, shifts len and leaves the loop when len is 0.
RECURSIVE combine_loop(_, _, _)
combine_loop(mat, crc, len) ==
    LET square == gf2_matrix_square(mat)
        applied == IF len % 2 = 1 THEN gf2_matrix_times(square, crc) ELSE crc
    IN  IF len \div 2 = 0 THEN applied
        ELSE combine_loop(square, applied, len \div 2)

\* A combine that does not advance crc_a over the length of B.
combine_without_shift(crc_a, crc_b, len_b) == xor(crc_a, crc_b)

\* combine
combine(crc_a, crc_b, len_b) ==
    IF len_b = 0 THEN crc_a
    ELSE LET mat1 == first_rows(0, 63)
             mat2 == gf2_matrix_square(mat1)
         IN  xor(combine_loop(gf2_matrix_square(mat2), crc_a, len_b), crc_b)

\* The byte values payloads are made of, and the payloads.
Bytes8 == {0, 255}

RECURSIVE Payloads(_)
Payloads(n) ==
    IF n = 0 THEN {<<>>}
    ELSE Payloads(n - 1) \cup {Append(d, b) : d \in Payloads(n - 1), b \in Bytes8}

\* Option<u64>, and the state before upload_parts has returned
NotReturned == [returned |-> FALSE, some |-> FALSE, crc |-> {}]
NoCrc == [returned |-> TRUE, some |-> FALSE, crc |-> {}]
SomeCrc(c) == [returned |-> TRUE, some |-> TRUE, crc |-> c]

NoFold == [lens |-> <<>>, len |-> 0, crc |-> {}]

\* Part checksums that are pushed with the part size as their length.
part_crcs_with_part_size(data, size) ==
    LET cs == chunks(Len(data), size)
    IN  [i \in 1 .. Len(cs) |->
            [crc |-> checksum(SubSeq(data, (i - 1) * size + 1,
                                     (i - 1) * size + cs[i])),
             len |-> size]]

\* upload_parts, the loop over data.chunks(part_size): what it pushes to
\* part_crcs, (checksum(chunk_range), chunk_len) for every chunk in turn.
part_crcs_of(data, size) ==
    LET cs == chunks(Len(data), size)
    IN  [i \in 1 .. Len(cs) |->
            [crc |-> checksum(SubSeq(data, (i - 1) * size + 1,
                                     (i - 1) * size + cs[i])),
             len |-> cs[i]]]

\* upload_parts, combined_crc: crc = 0, then crc = combine(crc, part_crc, len)
\* for every entry of part_crcs in turn.
RECURSIVE combined_crc(_)
combined_crc(crcs) ==
    IF crcs = <<>> THEN {}
    ELSE LET last == crcs[Len(crcs)]
         IN  combine(combined_crc(SubSeq(crcs, 1, Len(crcs) - 1)),
                     last.crc, last.len)

CrcInit ==
    /\ payload \in Payloads(MaxLen)
    /\ folded = NoFold
    /\ enable_crc64 = FALSE
    /\ crc_part_size = 0
    /\ part_crcs = <<>>
    /\ completed = <<>>
    /\ crc64 = NotReturned

CrcIdle ==
    /\ payload = <<>>
    /\ folded = NoFold
    /\ enable_crc64 = FALSE
    /\ crc_part_size = -1
    /\ part_crcs = <<>>
    /\ completed = <<>>
    /\ crc64 = NotReturned

CrcFrame ==
    /\ UNCHANGED <<execVars, xferVars, cacheVars, backoffVars>>
    /\ UNCHANGED <<chainVars, signVars, presignVars, builderVars, pageVars>>
    /\ UNCHANGED payload

\* checksum(A) of the first n bytes of the payload: the first part of a fold.
Checksum(n) ==
    /\ crc_part_size = 0
    /\ folded = NoFold
    /\ folded' = [lens |-> <<n>>, len |-> n,
                  crc |-> checksum(SubSeq(payload, 1, n))]
    /\ CrcFrame
    /\ UNCHANGED <<enable_crc64, crc_part_size, part_crcs, completed, crc64>>

\* combine(crc, checksum(B), B.len()) with the next n bytes of the payload.
Combine(n) ==
    /\ folded # NoFold
    /\ Len(folded.lens) < MaxLen
    /\ folded' =
          [lens |-> Append(folded.lens, n),
           len |-> folded.len + n,
           crc |-> combine(folded.crc,
                           checksum(SubSeq(payload, folded.len + 1,
                                           folded.len + n)),
                           n)]
    /\ CrcFrame
    /\ UNCHANGED <<enable_crc64, crc_part_size, part_crcs, completed, crc64>>

\* upload_parts is called for the payload: the loop that spawns the part
\* tasks fills part_crcs when enable_crc64 is set.  (The part size is in
\* bytes here; TransferManagerBuilder would raise it to MIN_PART_SIZE.)
SpawnParts(enable, size) ==
    /\ crc_part_size = 0
    /\ folded = NoFold
    /\ payload # <<>>
    /\ enable_crc64' = enable
    /\ crc_part_size' = size
    /\ part_crcs' = IF enable THEN part_crcs_of(payload, size) ELSE <<>>
    /\ CrcFrame
    /\ UNCHANGED <<folded, completed, crc64>>

\* The task of part i completes with Ok.
PartCompletes(i) ==
    /\ crc_part_size > 0
    /\ ~crc64.returned
    /\ i <= Len(chunks(Len(payload), crc_part_size))
    /\ \A k \in 1 .. Len(completed) : completed[k] # i
    /\ completed' = Append(completed, i)
    /\ CrcFrame
    /\ UNCHANGED <<folded, enable_crc64, crc_part_size, part_crcs, crc64>>

\* Every task has been joined: upload_parts returns combined_crc.
ReturnCrc ==
    /\ crc_part_size > 0
    /\ ~crc64.returned
    /\ Len(completed) = Len(chunks(Len(payload), crc_part_size))
    /\ crc64' = IF enable_crc64 THEN SomeCrc(combined_crc(part_crcs)) ELSE NoCrc
    /\ CrcFrame
    /\ UNCHANGED <<folded, enable_crc64, crc_part_size, part_crcs, completed>>

CrcNext ==
    \/ \E n \in 0 .. Len(payload) : Checksum(n)
    \/ \E n \in 0 .. (Len(payload) - folded.len) : Combine(n)
    \/ \E enable \in BOOLEAN, size \in 1 .. MaxLen : SpawnParts(enable, size)
    \/ \E i \in 1 .. Len(payload) : PartCompletes(i)
    \/ ReturnCrc

\* ------------------------------------------------------------------------
\* Properties of crc64
\* ------------------------------------------------------------------------
\* C24: for all byte strings A and B (B may be empty, which leaves crc_a as it
\* is), combine(checksum(A), checksum(B), len(B)) = checksum(A ++ B); hence
\* folding combine over three or more consecutive parts gives the checksum of
\* their concatenation.
C24_CombineIsChecksumOfConcat ==
    folded # NoFold => folded.crc = checksum(SubSeq(payload, 1, folded.len))

\* FF 00 FF combined from the parts FF, (empty) and 00 FF: the value is the
\* CRC-64 of the three bytes, 0x48444C2245F4BE98.
C24_Witness ==
    /\ payload = <<255, 0, 255>>
    /\ folded.lens = <<1, 0, 2>>
    /\ folded.crc = {3, 4, 7, 9, 10, 11, 12, 13, 15, 18, 20, 21, 22, 23, 24,
                     26, 30, 33, 37, 42, 43, 46, 50, 54, 59, 62}

\* The end of part i of the payload cut with crc_part_size, by arithmetic.
EndOfChunk(i) ==
    IF i * crc_part_size < Len(payload) THEN i * crc_part_size
    ELSE Len(payload)

\* The left fold of combine over the checksums of the parts 1 .. i, in
\* ascending order, each with the exact length of its part.
RECURSIVE AscendingFold(_)
AscendingFold(i) ==
    IF i = 0 THEN {}
    ELSE combine(AscendingFold(i - 1),
                 checksum(SubSeq(payload, (i - 1) * crc_part_size + 1,
                                 EndOfChunk(i))),
                 EndOfChunk(i) - (i - 1) * crc_part_size)

\* C22: with enable_crc64 on, the crc64 a successful multipart upload returns
\* is the left fold of combine over the parts' checksums in ascending
\* part-number order, each with its exact length, and it equals the checksum
\* of the whole payload, in whatever order the parts completed.
C22_UploadCrcIsChecksum ==
    (crc64.returned /\ enable_crc64) =>
        /\ crc64.some
        /\ crc64.crc = AscendingFold(Len(completed))
        /\ crc64.crc = checksum(payload)

\* FF 00 FF uploaded in parts of two bytes: the one-byte part 2 completed
\* before part 1, and the upload returned the CRC-64 of the three bytes.
C22_Witness ==
    /\ payload = <<255, 0, 255>>
    /\ enable_crc64
    /\ crc_part_size = 2
    /\ completed = <<2, 1>>
    /\ part_crcs[2].len = 1
    /\ crc64 = SomeCrc({3, 4, 7, 9, 10, 11, 12, 13, 15, 18, 20, 21, 22, 23,
                        24, 26, 30, 33, 37, 42, 43, 46, 50, 54, 59, 62})

\* ------------------------------------------------------------------------
\* Specifications
\* ------------------------------------------------------------------------
\* ------------------------------------------------------------------------
\* ProviderChain (src/credential.rs)
\* ------------------------------------------------------------------------
\* What a provider's resolve() gives: its credentials, or one of two errors.
ProviderKinds == {"credentials", "missing", "denied"}

RECURSIVE Chains(_)
Chains(n) ==
    IF n = 0 THEN {<<>>}
    ELSE Chains(n - 1) \cup {Append(c, k) : c \in Chains(n - 1), k \in ProviderKinds}

\* The error of provider i
ProviderError(i, reason) == [kind |-> "Auth", reason |-> reason, provider |-> i]

\* Ok(creds) with the credentials of provider i, Err(e), and no result yet
ChainOk(i) == [returned |-> TRUE, ok |-> TRUE, provider |-> i, err |-> NoError]
ChainErr(e) == [returned |-> TRUE, ok |-> FALSE, provider |-> 0, err |-> e]
ChainPending == [returned |-> FALSE, ok |-> FALSE, provider |-> 0, err |-> NoError]

ChainInit ==
    /\ providers \in Chains(MaxProviders)
    /\ chain_pos = 1
    /\ chain_last_err = NoError
    /\ chain_calls = <<>>
    /\ chain_result = ChainPending

ChainIdle ==
    /\ providers = <<>>
    /\ chain_pos = 0
    /\ chain_last_err = NoError
    /\ chain_calls = <<>>
    /\ chain_result = ChainPending

ChainFrame ==
    /\ UNCHANGED <<execVars, xferVars, cacheVars, backoffVars>>
    /\ UNCHANGED <<crcVars, signVars, presignVars, builderVars, pageVars>>
    /\ UNCHANGED providers

\* A loop body that keeps the first error it has seen.
CallProviderKeepsFirstError ==
    /\ ~chain_result.returned
    /\ chain_pos \in 1 .. Len(providers)
    /\ chain_calls' = Append(chain_calls, chain_pos)
    /\ IF providers[chain_pos] = "credentials"
       THEN /\ chain_result' = ChainOk(chain_pos)
            /\ UNCHANGED <<chain_pos, chain_last_err>>
       ELSE /\ chain_last_err' =
                  IF chain_last_err = NoError
                  THEN ProviderError(chain_pos, providers[chain_pos])
                  ELSE chain_last_err
            /\ chain_pos' = chain_pos + 1
            /\ UNCHANGED chain_result
    /\ ChainFrame

\* The body of the for loop: provider.resolve() is called; Ok(creds) is
\* returned at once, Err(e) is kept in last_err.
CallProvider ==
    /\ ~chain_result.returned
    /\ chain_pos \in 1 .. Len(providers)
    /\ chain_calls' = Append(chain_calls, chain_pos)
    /\ IF providers[chain_pos] = "credentials"
       THEN /\ chain_result' = ChainOk(chain_pos)
            /\ UNCHANGED <<chain_pos, chain_last_err>>
       ELSE /\ chain_last_err' = ProviderError(chain_pos, providers[chain_pos])
            /\ chain_pos' = chain_pos + 1
            /\ UNCHANGED chain_result
    /\ ChainFrame

\* The loop has ended: Err(last_err.unwrap_or_else(...)).
ChainExhausted ==
    /\ ~chain_result.returned
    /\ chain_pos = Len(providers) + 1
    /\ chain_result' =
          ChainErr(IF chain_last_err = NoError
                   THEN Auth("no credential providers configured")
                   ELSE chain_last_err)
    /\ ChainFrame
    /\ UNCHANGED <<chain_pos, chain_last_err, chain_calls>>

ChainNext ==
    \/ CallProvider
    \/ ChainExhausted

\* ------------------------------------------------------------------------
\* Properties of ProviderChain
\* ------------------------------------------------------------------------
\* The providers of the chain that give credentials.
Succeeding == {i \in 1 .. Len(providers) : providers[i] = "credentials"}

\* C25: ProviderChain::resolve consults its providers in insertion order and
\* returns the first success without calling any later provider; if every
\* provider fails it returns the error of the last provider; an empty chain
\* returns an error.
C25_ChainFirstSuccessOrLastError ==
    /\ \A k \in 1 .. Len(chain_calls) : chain_calls[k] = k
    /\ chain_result.returned =>
          IF Succeeding # {}
          THEN LET first == CHOOSE i \in Succeeding :
                               \A j \in Succeeding : i <= j
               IN  /\ chain_result = ChainOk(first)
                   /\ Len(chain_calls) = first
          ELSE /\ ~chain_result.ok
               /\ Len(chain_calls) = Len(providers)
               /\ chain_result.err =
                     IF providers = <<>>
                     THEN Auth("no credential providers configured")
                     ELSE ProviderError(Len(providers),
                                        providers[Len(providers)])

\* A chain of three failing providers with different errors has returned the
\* error of the third.
C25_Witness ==
    /\ providers = <<"missing", "denied", "missing">>
    /\ chain_calls = <<1, 2, 3>>
    /\ chain_result = ChainErr(ProviderError(3, "missing"))

\* A chain whose second provider succeeds has returned its credentials and
\* has not called the third.
C25_WitnessFirstSuccess ==
    /\ providers = <<"denied", "credentials", "credentials">>
    /\ chain_calls = <<1, 2>>
    /\ chain_result = ChainOk(2)

\* ------------------------------------------------------------------------
\* auth::v4::sign_request (src/auth/v4.rs).  A header name is the sequence of
\* its characters' codes, so that lower-casing, sorting and joining are
\* computed.  Sha256::digest and the HMAC are kept as terms over their inputs.
\* ------------------------------------------------------------------------
\* "authorization", "content-type", "x-oss-content-sha256", "x-oss-date",
\* "x-oss-meta-a", "x-oss-security-token", "x-oss-storage-class"
AUTHORIZATION == <<97, 117, 116, 104, 111, 114, 105, 122, 97, 116, 105, 111, 110>>
CONTENT_TYPE == <<99, 111, 110, 116, 101, 110, 116, 45, 116, 121, 112, 101>>
X_OSS_CONTENT_SHA256 ==
    <<120, 45, 111, 115, 115, 45, 99, 111, 110, 116, 101, 110,
      116, 45, 115, 104, 97, 50, 53, 54>>
X_OSS_DATE == <<120, 45, 111, 115, 115, 45, 100, 97, 116, 101>>
X_OSS_META_A == <<120, 45, 111, 115, 115, 45, 109, 101, 116, 97, 45, 97>>
X_OSS_SECURITY_TOKEN ==
    <<120, 45, 111, 115, 115, 45, 115, 101, 99, 117, 114, 105,
      116, 121, 45, 116, 111, 107, 101, 110>>
X_OSS_STORAGE_CLASS ==
    <<120, 45, 111, 115, 115, 45, 115, 116, 111, 114, 97, 103,
      101, 45, 99, 108, 97, 115, 115>>

\* The header names an operation sets on the request it builds.
OperationHeaders == {CONTENT_TYPE, X_OSS_META_A, X_OSS_STORAGE_CLASS}

\* Header values: the caller's, datetime_str, the credentials' token, the
\* payload hash and the authorization value.
HeaderValue(kind) == [kind |-> kind, of |-> <<>>]
Header(name, value) == [name |-> name, value |-> value]

\* hex::encode(Sha256::digest(bytes)), and the literal "UNSIGNED-PAYLOAD"
Sha256Hex(bytes) == [kind |-> "sha256", of |-> bytes]
UNSIGNED_PAYLOAD == [kind |-> "UNSIGNED-PAYLOAD", of |-> <<>>]

\* req.body(): None, Some(body) with body.as_bytes() = Some(bytes), or
\* Some(body) with a stream
NoBody == [kind |-> "none", bytes |-> <<>>]
BytesBody(bytes) == [kind |-> "bytes", bytes |-> bytes]
StreamBody == [kind |-> "stream", bytes |-> <<>>]
RequestBodies == {NoBody, BytesBody(<<>>), BytesBody(<<97>>), StreamBody}

\* The header lists of requests with up to n headers (a name may come twice:
\* a header with two values).
RECURSIVE HeaderLists(_)
HeaderLists(n) ==
    IF n = 0 THEN {<<>>}
    ELSE HeaderLists(n - 1) \cup
         {Append(hs, Header(name, HeaderValue("caller"))) :
              hs \in HeaderLists(n - 1), name \in OperationHeaders}

\* HeaderMap::insert: the values the name had are replaced by the one value.
RECURSIVE without(_, _)
without(headers, name) ==
    IF headers = <<>> THEN <<>>
    ELSE IF Head(headers).name = name THEN without(Tail(headers), name)
         ELSE <<Head(headers)>> \o without(Tail(headers), name)

insert(headers, name, value) == Append(without(headers, name), Header(name, value))

\* str::to_lowercase (ASCII)
to_lowercase(name) ==
    [i \in 1 .. Len(name) |->
        IF name[i] \in 65 .. 90 THEN name[i] + 32 ELSE name[i]]

\* a.cmp(b) = Less on strings: the byte-wise lexicographic order
str_lt(a, b) ==
    \E k \in 1 .. Len(b) :
       /\ \A j \in 1 .. k - 1 : j <= Len(a) /\ a[j] = b[j]
       /\ (k > Len(a) \/ (k <= Len(a) /\ a[k] < b[k]))

\* Vec::insert at the place the stable sort by name gives e among the sorted es.
RECURSIVE placed_by_name(_, _)
placed_by_name(es, e) ==
    IF es = <<>> THEN <<e>>
    ELSE IF str_lt(e.name, es[Len(es)].name)
         THEN Append(placed_by_name(SubSeq(es, 1, Len(es) - 1), e), es[Len(es)])
         ELSE Append(es, e)

\* A "sort" that leaves the headers in the order of the map.
sort_by_name_skipped(es) == es

\* header_list.sort_by(|a, b| a.0.cmp(&b.0)): a stable sort
RECURSIVE sort_by_name(_)
sort_by_name(es) ==
    IF es = <<>> THEN <<>>
    ELSE placed_by_name(sort_by_name(SubSeq(es, 1, Len(es) - 1)), es[Len(es)])

\* names.join(";")
RECURSIVE join(_)
join(names) ==
    IF names = <<>> THEN <<>>
    ELSE IF Len(names) = 1 THEN names[1]
         ELSE names[1] \o <<59>> \o join(Tail(names))

\* canonical_and_signed_headers: (canonical, signed)
canonical_and_signed_headers(headers) ==
    LET header_list ==
            sort_by_name([i \in 1 .. Len(headers) |->
                             Header(to_lowercase(headers[i].name),
                                    headers[i].value)])
    IN  [canonical |-> header_list,
         signed |-> join([i \in 1 .. Len(header_list) |-> header_list[i].name])]

\* A payload hash that takes a streamed body for an empty one.
payload_hash_of_bytes_only(body) ==
    IF body.kind = "bytes" THEN Sha256Hex(body.bytes) ELSE Sha256Hex(<<>>)

\* sign_request: "Compute payload hash"
payload_hash(body) ==
    IF body.kind = "none" THEN Sha256Hex(<<>>)
    ELSE IF body.kind = "bytes" THEN Sha256Hex(body.bytes)
         ELSE UNSIGNED_PAYLOAD

\* The Authorization value: SignedHeaders, and the signature as the canonical
\* request it is the HMAC of.
Authorization(signed, canonical, hash) ==
    [kind |-> "authorization",
     of |-> [signed_headers |-> signed,
             canonical_headers |-> canonical,
             payload_hash |-> hash]]

NotSigned == [done |-> FALSE, ok |-> FALSE, err |-> NoError]
SignOk == [done |-> TRUE, ok |-> TRUE, err |-> NoError]
SignErr(e) == [done |-> TRUE, ok |-> FALSE, err |-> e]

SignInit ==
    /\ \E body \in RequestBodies, headers \in HeaderLists(MaxHeaders) :
          sign_req = [body |-> body, headers |-> headers]
    /\ sign_credentials \in CredentialKinds
    /\ sign_result = NotSigned
    /\ sign_calls = 0

SignIdle ==
    /\ sign_req = [body |-> NoBody, headers |-> <<>>]
    /\ sign_credentials = "plain"
    /\ sign_result = SignOk
    /\ sign_calls = 0

SignFrame ==
    /\ UNCHANGED <<execVars, xferVars, cacheVars, backoffVars>>
    /\ UNCHANGED <<crcVars, chainVars, presignVars, builderVars, pageVars>>
    /\ UNCHANGED sign_credentials

\* sign_request: x-oss-date and x-oss-content-sha256 are inserted, then
\* x-oss-security-token if the credentials have a token (a token that is no
\* header value ends the call with Err), then the canonical request is built
\* and authorization is inserted.
Signing ==
    /\ sign_calls' = sign_calls + 1
    /\ LET hash == payload_hash(sign_req.body)
           dated == insert(sign_req.headers, X_OSS_DATE, HeaderValue("datetime"))
           hashed == insert(dated, X_OSS_CONTENT_SHA256, hash)
           tokened == IF sign_credentials = "token"
                      THEN insert(hashed, X_OSS_SECURITY_TOKEN, HeaderValue("token"))
                      ELSE hashed
           cs == canonical_and_signed_headers(tokened)
       IN  IF sign_credentials = "invalid"
           THEN /\ sign_req' = [sign_req EXCEPT !.headers = hashed]
                /\ sign_result' =
                      SignErr(Auth("failed to set x-oss-security-token header"))
           ELSE /\ sign_req' =
                      [sign_req EXCEPT !.headers =
                          insert(tokened, AUTHORIZATION,
                                 Authorization(cs.signed, cs.canonical, hash))]
                /\ sign_result' = SignOk
    /\ SignFrame

\* sign_request is called on a request built by an operation.
SignRequest ==
    /\ ~sign_result.done
    /\ Signing

\* sign_request is called again, with the same credentials, region and
\* timestamp, on the request it has signed.
SignAgain ==
    /\ sign_result.done
    /\ sign_result.ok
    /\ sign_calls = 1
    /\ Signing

SignNext ==
    \/ SignRequest

ResignNext ==
    \/ SignRequest
    \/ SignAgain

\* ------------------------------------------------------------------------
\* Properties of sign_request
\* ------------------------------------------------------------------------
\* The values of the header of that name on the request.
ValuesOf(name) ==
    {sign_req.headers[i].value :
        i \in {j \in 1 .. Len(sign_req.headers) : sign_req.headers[j].name = name}}

\* The headers that were present when the canonical request was built: all
\* but authorization, which is inserted after it.
Present ==
    {i \in 1 .. Len(sign_req.headers) : sign_req.headers[i].name # AUTHORIZATION}

\* a <= b in the byte-wise order of strings, by comparing at the first place
\* where they differ.
NameLe(a, b) ==
    \/ a = b
    \/ \E k \in 1 .. Len(b) :
          /\ \A j \in 1 .. k - 1 : j <= Len(a) /\ a[j] = b[j]
          /\ (k > Len(a) \/ (k <= Len(a) /\ a[k] < b[k]))

\* The names of the headers with indices in S, least first, joined by ";".
RECURSIVE AscendingJoined(_)
AscendingJoined(S) ==
    IF S = {} THEN <<>>
    ELSE LET least == CHOOSE i \in S :
                         \A j \in S : NameLe(sign_req.headers[i].name,
                                             sign_req.headers[j].name)
             rest == AscendingJoined(S \ {least})
         IN  IF rest = <<>> THEN sign_req.headers[least].name
             ELSE sign_req.headers[least].name \o <<59>> \o rest

\* The SignedHeaders of the Authorization header.
SignedHeaders ==
    LET a == CHOOSE v \in ValuesOf(AUTHORIZATION) : TRUE
    IN  a.of.signed_headers

\* name is one of the ";"-separated entries of the list.
Listed(name, list) ==
    \E k \in 1 .. Len(list) - Len(name) + 1 :
       /\ SubSeq(list, k, k + Len(name) - 1) = name
       /\ (k = 1 \/ list[k - 1] = 59)
       /\ (k + Len(name) > Len(list) \/ list[k + Len(name)] = 59)

CanonicalPayloadHash ==
    LET a == CHOOSE v \in ValuesOf(AUTHORIZATION) : TRUE
    IN  a.of.payload_hash

\* C27: the payload hash sign_request uses, in x-oss-content-sha256 and as
\* the last line of the canonical request, is the hex SHA-256 of the request
\* body when the body is available in memory (a request without a body has
\* the empty body), and the literal UNSIGNED-PAYLOAD in every other case.
C27_PayloadHash ==
    (sign_result.done /\ sign_result.ok) =>
        LET expected ==
                IF sign_req.body.kind = "stream"
                THEN [kind |-> "UNSIGNED-PAYLOAD", of |-> <<>>]
                ELSE [kind |-> "sha256", of |-> sign_req.body.bytes]
        IN  /\ ValuesOf(X_OSS_CONTENT_SHA256) = {expected}
            /\ CanonicalPayloadHash = expected

\* A request with a streamed body was signed with UNSIGNED-PAYLOAD.
C27_Witness ==
    /\ sign_result = SignOk
    /\ sign_req.body = StreamBody
    /\ ValuesOf(X_OSS_CONTENT_SHA256) = {UNSIGNED_PAYLOAD}
    /\ CanonicalPayloadHash = UNSIGNED_PAYLOAD

\* C39: sign_request is idempotent in its result: signing a request that
\* already carries the headers written by an earlier sign_request call, with
\* the same credential, region and timestamp, yields the same Authorization
\* header as signing the unsigned request.
C39_ResignSameAuthorization ==
    [][(sign_calls = 1 /\ sign_calls' = 2 /\ sign_result'.ok)
       => ValuesOf(AUTHORIZATION)' = ValuesOf(AUTHORIZATION)]_vars

\* ------------------------------------------------------------------------
\* Presigned URLs (src/types/request/presign.rs, src/ops/presign.rs).
\* A Duration is kept in whole milliseconds.
\* ------------------------------------------------------------------------
SEVEN_DAYS_SECS == 604800

\* Duration::from_secs, Duration::as_secs, Duration::is_zero
from_secs(secs) == secs * 1000
as_secs(d) == d \div 1000
is_zero(d) == d = 0

\* Option<Duration> of the builder
NoExpires == -1

\* The durations given to PresignedUrlRequestBuilder::expires.
ExpiresInputs ==
    {0, 1, 999, 1000, 1001, from_secs(3600), from_secs(SEVEN_DAYS_SECS),
     from_secs(SEVEN_DAYS_SECS) + 1, from_secs(SEVEN_DAYS_SECS) + 999,
     from_secs(SEVEN_DAYS_SECS + 1)}

InvalidParameter(field, reason) ==
    [kind |-> "InvalidParameter", field |-> field, reason |-> reason]

NotBuilt == [built |-> FALSE, ok |-> FALSE, expires |-> 0, err |-> NoError]
Built(expires) == [built |-> TRUE, ok |-> TRUE, expires |-> expires, err |-> NoError]
BuildErr(e) == [built |-> TRUE, ok |-> FALSE, expires |-> 0, err |-> e]

NoUrl == [made |-> FALSE, x_oss_expires |-> 0, x_oss_signed_headers |-> "",
          x_oss_security_token |-> FALSE]

PresignInit ==
    /\ \E expires \in ExpiresInputs \cup {NoExpires}, content_type \in BOOLEAN :
          presign_builder = [expires |-> expires, content_type |-> content_type]
    /\ \E method \in {"GET", "PUT"}, creds \in {"plain", "token"} :
          presign_client = [method |-> method, credentials |-> creds]
    /\ presign_request = NotBuilt
    /\ presign_url = NoUrl

PresignIdle ==
    /\ presign_builder = [expires |-> NoExpires, content_type |-> FALSE]
    /\ presign_client = [method |-> "GET", credentials |-> "plain"]
    /\ presign_request = BuildErr(NoError)
    /\ presign_url = NoUrl

PresignFrame ==
    /\ UNCHANGED <<execVars, xferVars, cacheVars, backoffVars>>
    /\ UNCHANGED <<crcVars, chainVars, signVars, builderVars, pageVars>>
    /\ UNCHANGED <<presign_builder, presign_client>>

\* PresignedUrlRequestBuilder::build (bucket and key are set)
BuildRequest ==
    /\ ~presign_request.built
    /\ LET expires == IF presign_builder.expires = NoExpires
                      THEN from_secs(3600)
                      ELSE presign_builder.expires
       IN  presign_request' =
              IF is_zero(expires)
              THEN BuildErr(InvalidParameter("expires", "must be at least 1 second"))
              ELSE IF as_secs(expires) > SEVEN_DAYS_SECS
                   THEN BuildErr(InvalidParameter("expires",
                            "cannot exceed 7 days (604800 seconds)"))
                   ELSE Built(expires)
    /\ PresignFrame
    /\ UNCHANGED presign_url

\* presign_get_object / presign_put_object: generate_presigned_url
GeneratePresignedUrl ==
    /\ presign_request.built
    /\ presign_request.ok
    /\ ~presign_url.made
    /\ presign_url' =
          [made |-> TRUE,
           x_oss_expires |-> as_secs(presign_request.expires),
           x_oss_signed_headers |->
               IF presign_builder.content_type THEN "content-type;host" ELSE "host",
           x_oss_security_token |-> presign_client.credentials = "token"]
    /\ PresignFrame
    /\ UNCHANGED presign_request

PresignNext ==
    \/ BuildRequest
    \/ GeneratePresignedUrl

\* ------------------------------------------------------------------------
\* Properties of presigned URLs
\* ------------------------------------------------------------------------
\* C28: a PresignedUrlRequest whose expiry lies outside (0, 7 days] is
\* rejected at build time, so every presigned URL that can be produced carries
\* an x-oss-expires value of at least 1 and at most 604800 seconds.
C28_ExpiresInRange ==
    /\ (presign_request.built /\ presign_request.ok) =>
          /\ presign_request.expires > 0
          /\ presign_request.expires <= 604800 * 1000
    /\ presign_url.made =>
          /\ presign_url.x_oss_expires >= 1
          /\ presign_url.x_oss_expires <= 604800

\* ------------------------------------------------------------------------
\* ClientBuilder::build (src/config.rs).  A Duration is kept in whole
\* milliseconds.
\* ------------------------------------------------------------------------
\* Option::None of a builder field
Unset == -1

\* The values given to base_retry_delay and max_retry_delay.
DelayInputs == {0, 100, 200, 30000, 30001, 60000}

\* The values given to max_retries.
RetriesInputs == {0, 5}

\* access_key_id: never set, set to a blank string, set to a key id.
AccessKeyIds == {"unset", "blank", "key"}

\* RetryConfig::default
DefaultRetryConfig == [max_retries |-> 3, base_delay |-> 200, max_delay |-> 30000]

MissingField(field) == [kind |-> "MissingField", field |-> field]

NoConfig == [built |-> FALSE, ok |-> FALSE, retry_config |-> DefaultRetryConfig,
             err |-> NoError]
ConfigOk(rc) == [built |-> TRUE, ok |-> TRUE, retry_config |-> rc, err |-> NoError]
ConfigErr(e) == [built |-> TRUE, ok |-> FALSE, retry_config |-> DefaultRetryConfig,
                 err |-> e]

\* "if let Some(v) = option { field = v }"
set_if_some(option, field) == IF option # Unset THEN option ELSE field

BuilderInit ==
    /\ client_builder \in [access_key_id : AccessKeyIds,
                           max_retries : RetriesInputs \cup {Unset},
                           base_retry_delay : DelayInputs \cup {Unset},
                           max_retry_delay : DelayInputs \cup {Unset}]
    /\ config = NoConfig

BuilderIdle ==
    /\ client_builder = [access_key_id |-> "unset", max_retries |-> Unset,
                         base_retry_delay |-> Unset, max_retry_delay |-> Unset]
    /\ config = ConfigErr(NoError)

\* ClientBuilder::build (the secret, the region and the endpoint are valid)
BuildConfig ==
    /\ ~config.built
    /\ config' =
          IF client_builder.access_key_id = "unset"
          THEN ConfigErr(MissingField("access_key_id"))
          ELSE IF client_builder.access_key_id = "blank"
          THEN ConfigErr(InvalidParameter("access_key_id",
                   "must not be empty or whitespace-only"))
          ELSE ConfigOk(
                   [max_retries |-> set_if_some(client_builder.max_retries,
                                                DefaultRetryConfig.max_retries),
                    base_delay |-> set_if_some(client_builder.base_retry_delay,
                                               DefaultRetryConfig.base_delay),
                    max_delay |-> set_if_some(client_builder.max_retry_delay,
                                              DefaultRetryConfig.max_delay)])
    /\ UNCHANGED client_builder
    /\ UNCHANGED <<execVars, xferVars, cacheVars, backoffVars>>
    /\ UNCHANGED <<crcVars, chainVars, signVars, presignVars, pageVars>>

BuilderNext ==
    \/ BuildConfig

\* ------------------------------------------------------------------------
\* Properties of ClientBuilder
\* ------------------------------------------------------------------------
\* C30: every retry policy a client can be built with satisfies
\* base_delay <= max_delay.
C30_BaseDelayAtMostMaxDelay ==
    (config.built /\ config.ok)
        => config.retry_config.base_delay <= config.retry_config.max_delay

\* ------------------------------------------------------------------------
\* Paginators (src/ops/paginator.rs).  ListObjectsV2Paginator is modelled;
\* ListBucketsPaginator is the same code with "marker" / "next_marker" in the
\* place of "continuation_token" / "next_continuation_token".
\* ------------------------------------------------------------------------
\* Option<String>: None is <<>>, Some(t) is <<t>>
NoToken == <<>>
Token(t) == <<t>>

\* ListObjectsV2Response n: its contents are the one object n
Page(n, is_truncated, next_continuation_token) ==
    [kind |-> "page", contents |-> <<n>>, is_truncated |-> is_truncated,
     next_continuation_token |-> next_continuation_token]

\* Err(e) of list_objects_v2, and no call made
ListError == [kind |-> "err", contents |-> <<>>, is_truncated |-> FALSE,
              next_continuation_token |-> NoToken]
NoResponse == [kind |-> "none", contents |-> <<>>, is_truncated |-> FALSE,
               next_continuation_token |-> NoToken]

\* What the service may answer to request number n.
ServerResponses(n) ==
    {ListError} \cup {Page(n, t, next) : t \in BOOLEAN, next \in {NoToken, Token(n)}}

\* The record of a call: the continuation token its request carried (when it
\* issued one), the response, and what a next_page call returned.
PageCall(op, requested, token, response, returned) ==
    [op |-> op, requested |-> requested, token |-> token, response |-> response,
     returned |-> returned]

PageInit ==
    /\ paginator = [continuation_token |-> NoToken, buffer |-> <<>>, done |-> FALSE]
    /\ pg_pc = "idle"
    /\ pg_all = <<>>
    /\ pg_log = <<>>

PageIdle ==
    /\ paginator = [continuation_token |-> NoToken, buffer |-> <<>>, done |-> FALSE]
    /\ pg_pc = "off"
    /\ pg_all = <<>>
    /\ pg_log = <<>>

PageFrame ==
    /\ UNCHANGED <<execVars, xferVars, cacheVars, backoffVars>>
    /\ UNCHANGED <<crcVars, chainVars, signVars, presignVars, builderVars>>

\* next_page: None when done; otherwise one request with the stored token,
\* whose error is returned by "?" and whose page updates the token or done.
NextPage ==
    /\ pg_pc = "idle"
    /\ Len(pg_log) < MaxPages
    /\ IF paginator.done
       THEN /\ pg_log' = Append(pg_log,
                   PageCall("next_page", FALSE, NoToken, NoResponse, "None"))
            /\ paginator' = paginator
       ELSE \E response \in ServerResponses(Len(pg_log) + 1) :
               IF response.kind = "err"
               THEN /\ pg_log' = Append(pg_log,
                           PageCall("next_page", TRUE, paginator.continuation_token,
                                    response, "Err"))
                    /\ paginator' = paginator
               ELSE /\ pg_log' = Append(pg_log,
                           PageCall("next_page", TRUE, paginator.continuation_token,
                                    response, "Some"))
                    /\ paginator' =
                          IF response.is_truncated
                          THEN [paginator EXCEPT !.continuation_token =
                                                     response.next_continuation_token]
                          ELSE [paginator EXCEPT !.done = TRUE]
    /\ PageFrame
    /\ UNCHANGED <<pg_pc, pg_all>>

\* collect_all is called: let mut all = Vec::new()
CollectAll ==
    /\ pg_pc = "idle"
    /\ pg_pc' = "collecting"
    /\ pg_all' = <<>>
    /\ PageFrame
    /\ UNCHANGED <<paginator, pg_log>>

\* A fetch_next_page that leaves the continuation token as it was.
FetchNextPageKeepsToken ==
    /\ pg_pc = "collecting"
    /\ ~paginator.done
    /\ Len(pg_log) < MaxPages
    /\ \E response \in ServerResponses(Len(pg_log) + 1) :
          /\ pg_log' = Append(pg_log,
                 PageCall("fetch_next_page", TRUE, paginator.continuation_token,
                          response, ""))
          /\ IF response.kind = "err"
             THEN /\ pg_pc' = "returned_err"
                  /\ UNCHANGED <<paginator, pg_all>>
             ELSE /\ pg_pc' = pg_pc
                  /\ pg_all' = pg_all \o (paginator.buffer \o response.contents)
                  /\ paginator' =
                        IF response.is_truncated
                        THEN [paginator EXCEPT !.buffer = <<>>]
                        ELSE [paginator EXCEPT !.buffer = <<>>, !.done = TRUE]
    /\ PageFrame

\* One iteration of "while !self.done" in collect_all: fetch_next_page issues
\* one request with the stored token, "?" returns its error, a page is added
\* to the buffer and updates the token or done; then the buffer is drained
\* into all.
FetchNextPage ==
    /\ pg_pc = "collecting"
    /\ ~paginator.done
    /\ Len(pg_log) < MaxPages
    /\ \E response \in ServerResponses(Len(pg_log) + 1) :
          /\ pg_log' = Append(pg_log,
                 PageCall("fetch_next_page", TRUE, paginator.continuation_token,
                          response, ""))
          /\ IF response.kind = "err"
             THEN /\ pg_pc' = "returned_err"
                  /\ UNCHANGED <<paginator, pg_all>>
             ELSE /\ pg_pc' = pg_pc
                  /\ pg_all' = pg_all \o (paginator.buffer \o response.contents)
                  /\ paginator' =
                        IF response.is_truncated
                        THEN [paginator EXCEPT !.buffer = <<>>,
                                               !.continuation_token =
                                                   response.next_continuation_token]
                        ELSE [paginator EXCEPT !.buffer = <<>>, !.done = TRUE]
    /\ PageFrame

\* The loop of collect_all ends: Ok(all)
CollectDone ==
    /\ pg_pc = "collecting"
    /\ paginator.done
    /\ pg_pc' = "returned_ok"
    /\ PageFrame
    /\ UNCHANGED <<paginator, pg_all, pg_log>>

PageNext ==
    \/ NextPage
    \/ CollectAll
    \/ FetchNextPage
    \/ CollectDone

\* ------------------------------------------------------------------------
\* Properties of the paginators
\* ------------------------------------------------------------------------
\* A page with is_truncated = false was received before call k.
DoneBefore(k) ==
    \E j \in 1 .. k - 1 :
       pg_log[j].response.kind = "page" /\ ~pg_log[j].response.is_truncated

\* The pages received before call k.
PagesBefore(k) == {j \in 1 .. k - 1 : pg_log[j].response.kind = "page"}

\* The continuation token of the last page received before call k.
PrecedingToken(k) ==
    IF PagesBefore(k) = {} THEN <<>>
    ELSE LET j == CHOOSE m \in PagesBefore(k) : \A n \in PagesBefore(k) : n <= m
         IN  pg_log[j].response.next_continuation_token

\* The fetch_next_page calls of collect_all.
Fetches == {k \in DOMAIN pg_log : pg_log[k].op = "fetch_next_page"}

\* C40: a paginator that has received a page with is_truncated = false is
\* done: from then on next_page returns None without issuing a request; and
\* collect_all issues exactly one request per page up to and including the
\* first non-truncated page, each request after the first carrying the
\* continuation token (or marker) of the preceding response.
C40_PaginatorDone ==
    /\ paginator.done <=> DoneBefore(Len(pg_log) + 1)
    /\ \A k \in DOMAIN pg_log :
          /\ DoneBefore(k) => /\ ~pg_log[k].requested
                              /\ pg_log[k].op = "next_page"
                              /\ pg_log[k].returned = "None"
          /\ ~DoneBefore(k) => pg_log[k].requested
          /\ pg_log[k].requested => pg_log[k].token = PrecedingToken(k)
          /\ pg_log[k].op = "fetch_next_page"
                => \A j \in k .. Len(pg_log) : pg_log[j].op = "fetch_next_page"
    /\ \A k \in Fetches :
          k < Len(pg_log) => /\ pg_log[k].response.kind = "page"
                             /\ pg_log[k].response.is_truncated
    /\ pg_pc = "returned_ok"
          => /\ paginator.done
             /\ \A k \in Fetches : pg_log[k].response.kind = "page"
             /\ Len(pg_all) = Cardinality(Fetches)
             /\ \A i \in DOMAIN pg_all :
                   <<pg_all[i]>> = pg_log[Len(pg_log) - Len(pg_all) + i].response.contents
    /\ pg_pc = "returned_err"
          => /\ pg_log # <<>>
             /\ pg_log[Len(pg_log)].op = "fetch_next_page"
             /\ pg_log[Len(pg_log)].response.kind = "err"

\* next_page received a truncated page with token 1; collect_all then sent
\* token 1, received a truncated page with token 2, sent token 2, received
\* the last page and returned the objects of its two pages.
C40_Witness ==
    /\ pg_pc = "returned_ok"
    /\ Len(pg_log) = 3
    /\ pg_log[1].op = "next_page" /\ pg_log[1].returned = "Some"
    /\ pg_log[1].token = <<>>
    /\ pg_log[2].op = "fetch_next_page" /\ pg_log[2].token = <<1>>
    /\ pg_log[3].op = "fetch_next_page" /\ pg_log[3].token = <<2>>
    /\ ~pg_log[3].response.is_truncated
    /\ pg_all = <<2, 3>>

EarlyIdle == ExecIdle /\ XferIdle /\ CacheIdle /\ BackoffIdle
LateIdle == CrcIdle /\ ChainIdle /\ SignIdle /\ PresignIdle /\ BuilderIdle /\ PageIdle

InitExec == ExecInit /\ XferIdle /\ CacheIdle /\ BackoffIdle /\ LateIdle
InitXfer == ExecIdle /\ XferInit /\ CacheIdle /\ BackoffIdle /\ LateIdle
InitCache == ExecIdle /\ XferIdle /\ CacheInit /\ BackoffIdle /\ LateIdle
InitBackoff == ExecIdle /\ XferIdle /\ CacheIdle /\ BackoffInit /\ LateIdle
InitCrc == EarlyIdle /\ CrcInit /\ ChainIdle /\ SignIdle /\ PresignIdle /\ BuilderIdle /\ PageIdle
InitChain == EarlyIdle /\ CrcIdle /\ ChainInit /\ SignIdle /\ PresignIdle /\ BuilderIdle /\ PageIdle
InitSign == EarlyIdle /\ CrcIdle /\ ChainIdle /\ SignInit /\ PresignIdle /\ BuilderIdle /\ PageIdle
InitPresign == EarlyIdle /\ CrcIdle /\ ChainIdle /\ SignIdle /\ PresignInit /\ BuilderIdle /\ PageIdle
InitBuilder == EarlyIdle /\ CrcIdle /\ ChainIdle /\ SignIdle /\ PresignIdle /\ BuilderInit /\ PageIdle
InitPage ==
    EarlyIdle /\ CrcIdle /\ ChainIdle /\ SignIdle /\ PresignIdle /\ BuilderIdle /\ PageInit

SpecExec == InitExec /\ [][ExecNext]_vars
SpecXfer == InitXfer /\ [][XferNext]_vars
SpecXferFair == InitXfer /\ [][XferNext]_vars /\ XferFairness
SpecCache == InitCache /\ [][CacheNext]_vars
SpecBackoff == InitBackoff /\ [][BackoffNext]_vars
SpecCrc == InitCrc /\ [][CrcNext]_vars
SpecChain == InitChain /\ [][ChainNext]_vars
SpecSign == InitSign /\ [][SignNext]_vars
SpecResign == InitSign /\ [][ResignNext]_vars
SpecPresign == InitPresign /\ [][PresignNext]_vars
SpecBuilder == InitBuilder /\ [][BuilderNext]_vars
SpecPage == InitPage /\ [][PageNext]_vars

====
